---- MODULE Spec2Model ----
(***************************************************************************)
(* npstreams: the streaming reduction engine (reduce.py), the NaN adapter  *)
(* (array_utils.py), the stream helpers (iter_utils.py, array_stream.py),  *)
(* the parallel chunked fold and map (parallel.py) and the running mean,   *)
(* variance, standard deviation and standard error (stats.py).             *)
(*                                                                         *)
(* An ndarray is a record [shape, data]: data holds the entries in         *)
(* row-major (C) order.  A generator is a position (pc) plus its locals.   *)
(***************************************************************************)
EXTENDS Integers, Sequences, FiniteSets, TLC

\* Longest input stream of the reduction engine.
MaxLen == 3

\* Longest iterable handed to the parallel fold.
MaxItems == 4

\* Largest processes argument.
MaxProcesses == 3

\* Largest ntotal hint.
MaxHint == 4

\* The floating "not a number" entry: absorbing for every arithmetic ufunc.
NaN == -1000

None == <<>>

---------------------------------------------------------------------------
(* ndarrays                                                                *)

ndarray(shape, data) == [shape |-> shape, data |-> data]

ndim(a) == Len(a.shape)

\* Entries of the arrays a stream is made of.
ArrayData == {<<1, 2>>, <<2, 1>>, <<NaN, 2>>, <<NaN, NaN>>}

\* Shapes of the arrays a stream is made of (one 1-D, one 2-D).
Shapes == {<<2>>, <<2, 1>>}

ArraysOf(shape) == {ndarray(shape, d) : d \in ArrayData}

SeqsUpTo(S, n) == UNION {[1..k -> S] : k \in 0..n}

\* Streams of equal-shaped arrays, the empty stream included.
Streams == UNION {SeqsUpTo(ArraysOf(s), MaxLen) : s \in Shapes}

---------------------------------------------------------------------------
(* ufuncs                                                                  *)

\* The callables handed to ireduce_ufunc: three binary arithmetic ufuncs,
\* a plain Python function, a unary ufunc and a comparison ufunc.
Ufuncs == {"add", "multiply", "subtract", "lambda", "absolute", "greater"}

is_ufunc(u) == u # "lambda"

nin(u) == IF u = "absolute" THEN 1 ELSE 2

always_bool(u) == u = "greater"

\* ufunc.identity: None (the empty tuple) or <<e>>.
identity(u) ==
    CASE u = "add" -> <<0>>
      [] u = "multiply" -> <<1>>
      [] OTHER -> None

\* ufunc.reduce over several axes needs a reorderable ufunc.
reorderable(u) == u \in {"add", "multiply"}

\* One application of a binary ufunc to two entries.
apply(u, x, y) ==
    IF x = NaN \/ y = NaN THEN NaN
    ELSE CASE u = "add" -> x + y
           [] u = "multiply" -> x * y
           [] u = "subtract" -> x - y

\* ufunc(a, b): entry by entry on two arrays of one shape.
ufunc_call(u, a, b) ==
    ndarray(a.shape, [i \in 1..Len(a.data) |-> apply(u, a.data[i], b.data[i])])

\* ufunc.reduce over a 1-D run of entries: left to right.
RECURSIVE reduce_1d(_, _)
reduce_1d(u, s) ==
    IF Len(s) = 1 THEN s[1]
    ELSE apply(u, reduce_1d(u, SubSeq(s, 1, Len(s) - 1)), s[Len(s)])

\* ufunc.reduce(a, axis=ax) for 0 <= ax < ndim(a), ndim(a) in {1, 2}.
reduce_axis(u, a, ax) ==
    IF ndim(a) = 1 THEN ndarray(<<>>, <<reduce_1d(u, a.data)>>)
    ELSE LET r == a.shape[1]
             c == a.shape[2]
         IN  IF ax = 0
             THEN ndarray(<<c>>, [j \in 1..c |->
                      reduce_1d(u, [i \in 1..r |-> a.data[(i - 1) * c + j]])])
             ELSE ndarray(<<r>>, [i \in 1..r |->
                      reduce_1d(u, [j \in 1..c |-> a.data[(i - 1) * c + j]])])

\* ufunc.reduce(a, axis=None): every entry folded into one scalar.
reduce_all(u, a) == ndarray(<<>>, <<reduce_1d(u, a.data)>>)

atleast_1d(a) == IF a.shape = <<>> THEN ndarray(<<1>>, a.data) ELSE a

\* np.stack([a, b], axis=-1)
stack_last(a, b) ==
    ndarray(a.shape \o <<2>>,
            [i \in 1..(2 * Len(a.data)) |->
                IF i % 2 = 1 THEN a.data[(i + 1) \div 2] ELSE b.data[i \div 2]])

\* np.expand_dims(a, axis=ndim(a)): a new trailing axis of length one.
expand_dims_last(a) == ndarray(a.shape \o <<1>>, a.data)

\* np.concatenate([a, b], axis=-1) of two arrays that agree on the other axes.
concatenate_last(a, b) ==
    LET k == a.shape[Len(a.shape)]
        m == b.shape[Len(b.shape)]
        w == k + m
    IN  ndarray(SubSeq(a.shape, 1, Len(a.shape) - 1) \o <<w>>,
                [i \in 1..(Len(a.data) + Len(b.data)) |->
                    LET row == (i - 1) \div w
                        col == (i - 1) % w
                    IN  IF col < k THEN a.data[row * k + col + 1]
                        ELSE b.data[row * m + (col - k) + 1]])

\* Faulty variant: the fill value is dropped and NaN becomes 0.0, as numpy.nan_to_num.
nan_to_num_zero(a, fill_value) ==
    ndarray(a.shape,
            [i \in 1..Len(a.data) |->
                IF a.data[i] = NaN THEN 0 ELSE a.data[i]])

\* array_utils.nan_to_num on an inexact array: NaN entries become fill_value.
nan_to_num(a, fill_value) ==
    ndarray(a.shape,
            [i \in 1..Len(a.data) |->
                IF a.data[i] = NaN THEN fill_value ELSE a.data[i]])

---------------------------------------------------------------------------
(* dtypes: what numpy does with the dtype argument the loops hand to it    *)

\* The element kinds of the arrays of a stream (int64 is the platform long).
Dtypes == {"int8", "int64", "float64"}

\* One entry converted to dtype d: int8 keeps the low 8 bits (two's
\* complement); the entries modelled are exact in int64 and in float64, and
\* NaN only occurs in float64 arrays that are never cast to an integer dtype.
cast(d, v) ==
    IF v = NaN THEN NaN
    ELSE IF d = "int8" THEN ((v + 128) % 256) - 128
    ELSE v

\* ndarray.astype(d) with unsafe casting.
astype(a, d) == ndarray(a.shape, [i \in 1..Len(a.data) |-> cast(d, a.data[i])])

\* np.result_type of two dtypes.
result_type(d1, d2) ==
    IF "float64" \in {d1, d2} THEN "float64"
    ELSE IF "int64" \in {d1, d2} THEN "int64"
    ELSE "int8"

\* np.can_cast(from, to, casting="same_kind"): never from float to integer.
can_cast_same_kind(from, to) == ~(from = "float64" /\ to # "float64")

\* The dtype ufunc.reduce(a, dtype=override) computes and returns for an
\* array of dtype d: add and multiply widen small integers to the long.
reduce_dtype(u, override, d) ==
    IF override # None THEN override[1]
    ELSE IF d = "int8" /\ u \in {"add", "multiply"} THEN "int64"
    ELSE d

\* _ireduce_ufunc_new_axis: dtype = first.dtype unless dtype is given.
new_axis_dtype(override, d_first) ==
    IF override = None THEN d_first ELSE override[1]

\* ufunc(accumulator, array, out=accumulator, dtype=override): the dtype the
\* loop of the ufunc runs in.
new_axis_calc(override, d_acc, d_array) ==
    IF override = None THEN result_type(d_acc, d_array) ELSE override[1]

\* casting="unsafe" is only set when dtype is given: otherwise the result
\* must cast to the accumulator under "same_kind" or the ufunc raises.
new_axis_cast_error(override, d_acc, d_array) ==
    /\ override = None
    /\ ~can_cast_same_kind(result_type(d_acc, d_array), d_acc)

---------------------------------------------------------------------------
(* The three loops of ireduce_ufunc, one operator per yield               *)

\* A typed array: the entries and the dtype they are stored in.
typed(array, d) == [array |-> array, dtype |-> d]

\* _ireduce_ufunc_new_axis: np.array(first, copy=True).
new_axis_first(first) == first

\* _ireduce_ufunc_new_axis: accumulator = np.array(first, copy=True).astype(dtype).
new_axis_create(override, first, d_first) ==
    LET d == new_axis_dtype(override, d_first)
    IN  typed(astype(new_axis_first(first), d), d)

\* Faulty variant: the operands of the in-place update are swapped.
new_axis_step_swapped(u, accumulator, array) == ufunc_call(u, array, accumulator)

\* _ireduce_ufunc_new_axis: ufunc(accumulator, array, out=accumulator).
new_axis_step(u, accumulator, array) == ufunc_call(u, accumulator, array)

\* ufunc(accumulator, array, out=accumulator, dtype=override): both operands
\* are cast to the dtype of the loop, the result is stored in the accumulator.
new_axis_update(u, override, accumulator, d_acc, array, d_array) ==
    LET calc == new_axis_calc(override, d_acc, d_array)
    IN  typed(astype(astype(new_axis_step(u, astype(accumulator, calc),
                                             astype(array, calc)), calc), d_acc),
              d_acc)

\* axis_reduce = partial(ufunc.reduce, axis=ax, dtype=override) applied to an
\* array of dtype d (ax is None or <<n>>).
axis_reduce(u, ax, override, array, d) ==
    LET rd == reduce_dtype(u, override, d)
        a  == astype(array, rd)
    IN  typed(astype(IF ax = None THEN reduce_all(u, a)
                     ELSE reduce_axis(u, a, ax[1]), rd), rd)

\* _ireduce_ufunc_all_axes: accumulator = axis_reduce(first).
all_axes_create(u, override, first, d_first) ==
    axis_reduce(u, None, override, first, d_first)

\* Faulty variant: the accumulator is replaced by the reduced array instead
\* of being folded with it.
all_axes_update_forgetting(u, override, accumulator, d_acc, array, d_array) ==
    axis_reduce(u, None, override, array, d_array)

\* _ireduce_ufunc_all_axes: axis_reduce([accumulator, axis_reduce(array)]);
\* the list of two scalars becomes an array of their common dtype.
all_axes_update(u, override, accumulator, d_acc, array, d_array) ==
    LET r  == axis_reduce(u, None, override, array, d_array)
        nd == reduce_dtype(u, override, result_type(d_acc, r.dtype))
    IN  typed(astype(ufunc_call(u, astype(accumulator, nd), astype(r.array, nd)), nd),
              nd)

\* _ireduce_ufunc_existing_axis: np.atleast_1d(axis_reduce(first)).
existing_axis_create(u, ax, override, first, d_first) ==
    LET r == axis_reduce(u, <<ax>>, override, first, d_first)
    IN  typed(atleast_1d(r.array), r.dtype)

\* _ireduce_ufunc_existing_axis: np.stack([accumulator, reduced second]).
existing_axis_stack(u, ax, override, accumulator, d_acc, second, d_second) ==
    LET r == axis_reduce(u, <<ax>>, override, second, d_second)
    IN  typed(stack_last(accumulator, atleast_1d(r.array)),
              result_type(d_acc, r.dtype))

\* _ireduce_ufunc_existing_axis: np.concatenate([accumulator, reduced]).
existing_axis_grow(u, ax, override, accumulator, d_acc, array, d_array) ==
    LET r == axis_reduce(u, <<ax>>, override, array, d_array)
    IN  typed(concatenate_last(accumulator, expand_dims_last(atleast_1d(r.array))),
              result_type(d_acc, r.dtype))

\* The loops on float64 arrays with dtype=None.
all_axes_first(u, first) == all_axes_create(u, None, first, "float64").array

all_axes_step(u, accumulator, array) ==
    all_axes_update(u, None, accumulator, "float64", array, "float64").array

existing_axis_first(u, ax, first) ==
    existing_axis_create(u, ax, None, first, "float64").array

existing_axis_second(u, ax, accumulator, second) ==
    existing_axis_stack(u, ax, None, accumulator, "float64", second, "float64").array

existing_axis_step(u, ax, accumulator, array) ==
    existing_axis_grow(u, ax, None, accumulator, "float64", array, "float64").array

\* Faulty variant: the identity check is left to the first pull.
check_binary_ufunc_without_identity(u, ign) ==
    IF ~is_ufunc(u) THEN "TypeError"
    ELSE IF nin(u) # 2 THEN "ValueError"
    ELSE IF always_bool(u) THEN "ValueError"
    ELSE "none"

\* _check_binary_ufunc and the identity check: the error the call raises.
check_binary_ufunc(u, ign) ==
    IF ~is_ufunc(u) THEN "TypeError"
    ELSE IF nin(u) # 2 THEN "ValueError"
    ELSE IF always_bool(u) THEN "ValueError"
    ELSE IF ign /\ identity(u) = None THEN "ValueError"
    ELSE "none"

\* Faulty variant: only an axis beyond the rank falls back to stacking.
dispatch_strict(ax, first) ==
    IF ax = <<-1>> THEN "new_axis"
    ELSE IF ax = None THEN "all_axes"
    ELSE IF ax[1] > ndim(first) THEN "new_axis"
    ELSE "existing_axis"

\* Which loop runs: the dispatch of ireduce_ufunc after priming.
dispatch(ax, first) ==
    IF ax = <<-1>> THEN "new_axis"
    ELSE IF ax = None THEN "all_axes"
    ELSE IF ax[1] >= ndim(first) THEN "new_axis"
    ELSE "existing_axis"

\* The array the loops receive for the input x: with ignore_nan the stream
\* is mapped through nan_to_num(fill_value=ufunc.identity, copy=False).
mapped(u, ign, x) ==
    IF ign /\ identity(u) # None THEN nan_to_num(x, identity(u)[1]) ELSE x

---------------------------------------------------------------------------
(* array_stream: what the decorated function receives                      *)

\* A Python (nested) list of floats is [list |-> <<...>>, depth |-> 1 or 2].
IsList(x) == "list" \in DOMAIN x

\* The rows of a list of lists, one after the other.
RECURSIVE concat_rows(_)
concat_rows(rows) == IF rows = <<>> THEN <<>> ELSE rows[1] \o concat_rows(Tail(rows))

\* np.asarray: an ndarray is returned as it is, a list becomes a new array.
asarray(x) ==
    IF ~IsList(x) THEN x
    ELSE IF x.depth = 1 THEN ndarray(<<Len(x.list)>>, x.list)
    ELSE ndarray(<<Len(x.list), Len(x.list[1])>>, concat_rows(x.list))

\* Iterating an ndarray: its sub-arrays along the first axis.
iter_ndarray(a) ==
    IF ndim(a) = 1 THEN [i \in 1..a.shape[1] |-> ndarray(<<>>, <<a.data[i]>>)]
    ELSE [i \in 1..a.shape[1] |->
             ndarray(Tail(a.shape),
                     SubSeq(a.data, (i - 1) * a.shape[2] + 1, i * a.shape[2]))]

\* Faulty variant: a bare ndarray is iterated like any other iterable.
array_stream_iterating(is_ndarray, arrays) ==
    IF is_ndarray THEN iter_ndarray(arrays) ELSE arrays

\* array_stream: a bare ndarray is repackaged as (arrays,); the elements go
\* through map(asarray, ...) as they are pulled.
array_stream(is_ndarray, arrays) ==
    IF is_ndarray THEN <<arrays>> ELSE arrays

---------------------------------------------------------------------------
(* One whole run of ireduce_ufunc over a given stream, as a value         *)

\* The value yielded at step k >= 1 by the loop `mode` over the arrays xs.
RECURSIVE loop_value(_, _, _, _, _)
loop_value(mode, u, ax, xs, k) ==
    CASE mode = "new_axis" ->
            IF k = 1 THEN new_axis_first(xs[1])
            ELSE new_axis_step(u, loop_value(mode, u, ax, xs, k - 1), xs[k])
      [] mode = "all_axes" ->
            IF k = 1 THEN all_axes_first(u, xs[1])
            ELSE all_axes_step(u, loop_value(mode, u, ax, xs, k - 1), xs[k])
      [] mode = "existing_axis" ->
            IF k = 1 THEN existing_axis_first(u, ax[1], xs[1])
            ELSE IF k = 2
            THEN existing_axis_second(u, ax[1], loop_value(mode, u, ax, xs, 1), xs[2])
            ELSE existing_axis_step(u, ax[1], loop_value(mode, u, ax, xs, k - 1), xs[k])

\* ireduce_ufunc(xs0, u, axis=ax, ignore_nan=ign) run to its end: the values
\* it yields and how it ends ("stopped" or the exception raised).
ireduce_ufunc(u, ax, ign, xs0) ==
    LET e  == check_binary_ufunc(u, ign)
        xs == [i \in 1..Len(xs0) |-> mapped(u, ign, xs0[i])]
        n  == Len(xs0)
    IN  IF e # "none" THEN [values |-> <<>>, end |-> e]
        ELSE IF n = 0 THEN [values |-> <<>>, end |-> "RuntimeError"]
        ELSE LET mode == dispatch(ax, xs[1])
             IN  IF mode = "all_axes" /\ ndim(xs[1]) > 1 /\ ~reorderable(u)
                 THEN [values |-> <<>>, end |-> "ValueError"]
                 ELSE IF mode = "existing_axis" /\ ax[1] \notin 0..(ndim(xs[1]) - 1)
                 THEN [values |-> <<>>, end |-> "ValueError"]
                 ELSE IF mode = "existing_axis" /\ n = 1
                 THEN [values |-> <<loop_value(mode, u, ax, xs, 1)>>,
                       end |-> "RuntimeError"]
                 ELSE [values |-> [k \in 1..n |-> loop_value(mode, u, ax, xs, k)],
                       end |-> "stopped"]

\* iter_utils.last over a generator run: its last value, or the exception
\* that ended it (RuntimeError when nothing was yielded, and also for an
\* IndexError of the run, which the except clause of last catches).
last(run) ==
    IF run.end = "IndexError" THEN [err |-> "RuntimeError", value |-> None]
    ELSE IF run.end # "stopped" THEN [err |-> run.end, value |-> None]
    ELSE IF run.values = <<>> THEN [err |-> "RuntimeError", value |-> None]
    ELSE [err |-> "none", value |-> run.values[Len(run.values)]]

\* reduce_ufunc: last(ireduce_ufunc(...)).
reduce_ufunc(u, ax, ign, xs) == last(ireduce_ufunc(u, ax, ign, xs))

---------------------------------------------------------------------------
(* State                                                                   *)

VARIABLES
    ufunc,          \* the callable passed as ufunc (or as func to preduce)
    axis,           \* None or <<n>>
    dtype,          \* the dtype argument: None or <<d>>
    ignore_nan,
    bare,           \* the arrays argument was a single ndarray, not an iterable
    source0,        \* the input arrays (or items) as the caller built them
    dtypes0,        \* the dtype of each input array
    source,         \* the same array objects, as they are now
    pulled,         \* arrays pulled from the input so far
    pc,             \* where the ireduce_ufunc generator is
    acc,            \* the accumulator (None before the first pull)
    yielded,        \* the values yielded so far, as they were when yielded
    received,       \* the elements the decorated function has received
    acc_dtype,      \* the dtype of the accumulator (None before the first pull)
    ydtypes,        \* the dtype of each value yielded
    err,            \* the exception the generator raised, "none" if none
    heap,           \* the array objects the generator created, as they are now
    held,           \* per yielded value, the object the consumer was handed
    entry,          \* the parallel entry point called: preduce or preduce_ufunc
    processes,
    ntotal,         \* None or <<n>>
    sized,          \* isinstance(iterable, Sized) for the iterable the caller passes
    pool,           \* "none", "open" or "closed"
    ppc,            \* where the parallel call is
    chunks,         \* the chunks handed to the pool
    partials,       \* per chunk: None, or <<result of the worker>>
    overtaken,      \* some worker finished before the worker of an earlier chunk
    taken,          \* the chunks whose results the caller has retrieved, in order
    broken,         \* None, or <<j>>: iterating the input raises instead of giving item j
    result,         \* what the caller has folded so far / returns
    perr,           \* the exception the parallel call raised, "none" if none
    args,           \* the args argument of pmap: None or <<a>>
    kwargs,         \* the kwargs argument of pmap: None or <<scale>>
    stat,           \* the statistics generator called: iaverage or ivar
    weights0,       \* the weights argument: None or the weights, one per array
    ddof,
    spc,            \* where the statistics generator is
    avgs,           \* the two running sums of the average of the arrays
    avg_of_squares, \* the two running sums of the average of the squares
    sum_of_weights, \* the running sum of weights of _ivar
    syielded,       \* the values the statistics generator has yielded
    sreturned,      \* None, or <<the value average or var returned>>
    serr,           \* the exception it raised, "none" if none
    csize,          \* the chunksize argument of chunked: its value, and is it an int
    endless,        \* the iterable handed to chunked never ends
    exc             \* the exception a stream handed to last raises, "none" if none

\* The arguments of the call: never assigned after the call.
config == <<ufunc, axis, dtype, ignore_nan, bare, source0, dtypes0>>

rvars == <<config, source, pulled, pc, acc, yielded, err, heap, held,
           received, acc_dtype, ydtypes>>

\* The arguments of the parallel call: never assigned after the call.
pargs == <<entry, processes, ntotal, sized, broken, args, kwargs>>

pvars == <<pargs, pool, ppc, chunks, partials, overtaken, taken, result, perr>>

\* The arguments of the statistics call: never assigned after the call.
sargs == <<stat, weights0, ddof>>

svars == <<sargs, spc, avgs, avg_of_squares, sum_of_weights, syielded,
           sreturned, serr>>

\* The arguments of chunked besides the iterable: never assigned after the call.
cvars == <<csize, endless, exc>>

vars == <<rvars, pvars, svars, cvars>>

---------------------------------------------------------------------------
(* ireduce_ufunc: the generator                                            *)

Axes == {None, <<-2>>, <<-1>>, <<0>>, <<1>>, <<2>>}

\* The array the generator receives for input i: map(asarray, arrays), and
\* with ignore_nan the nan_to_num map on top of it.
incoming(i) == mapped(ufunc, ignore_nan, asarray(source[i]))

\* Faulty variant: one more array is read from the input than is consumed.
PullAhead ==
    /\ pulled' = IF pulled + 2 <= Len(source) THEN pulled + 2 ELSE pulled + 1
    /\ source' = [source EXCEPT ![pulled + 1] =
                      IF IsList(source[pulled + 1]) THEN source[pulled + 1]
                      ELSE incoming(pulled + 1)]
    /\ received' = Append(received, incoming(pulled + 1))

\* Pull input number pulled + 1: nan_to_num(copy=False) writes its result
\* into the input array itself (into the new array when the input is a list).
Pull ==
    /\ pulled' = pulled + 1
    /\ source' = [source EXCEPT ![pulled + 1] =
                      IF IsList(source[pulled + 1]) THEN source[pulled + 1]
                      ELSE incoming(pulled + 1)]
    /\ received' = Append(received, incoming(pulled + 1))

exhausted == pulled = Len(source)

Raise(e) ==
    /\ pc' = "failed"
    /\ err' = e
    /\ UNCHANGED <<acc, yielded, heap, held, acc_dtype, ydtypes>>

\* The dtype of the accumulator as it is yielded.
Kind(d) ==
    /\ acc_dtype' = <<d>>
    /\ ydtypes' = Append(ydtypes, d)

\* yield accumulator, the accumulator having just been bound to a new array
\* object (a copy, or the result of reduce, np.stack or np.concatenate).
Yield(at, value) ==
    /\ pc' = at
    /\ acc' = value
    /\ yielded' = Append(yielded, value)
    /\ err' = err
    /\ heap' = Append(heap, value)
    /\ held' = Append(held, Len(heap) + 1)

\* Faulty variant: the update builds a new array and rebinds the accumulator.
YieldRebound(at, value) == Yield(at, value)

\* yield accumulator after ufunc(accumulator, array, out=accumulator): the
\* object yielded last is written in place and yielded again.
YieldInPlace(at, value) ==
    /\ pc' = at
    /\ acc' = value
    /\ yielded' = Append(yielded, value)
    /\ err' = err
    /\ heap' = [heap EXCEPT ![held[Len(held)]] = value]
    /\ held' = Append(held, held[Len(held)])

Stop ==
    /\ pc' = "stopped"
    /\ UNCHANGED <<source, pulled, acc, yielded, err, heap, held,
                   received, acc_dtype, ydtypes>>

RIdle ==
    /\ pulled = 0
    /\ pc = "new"
    /\ acc = None
    /\ yielded = <<>>
    /\ err = "none"
    /\ heap = <<>>
    /\ held = <<>>
    /\ received = <<>>
    /\ acc_dtype = None
    /\ ydtypes = <<>>

PIdle ==
    /\ entry = "none"
    /\ processes = 1
    /\ ntotal = None
    /\ sized = FALSE
    /\ broken = None
    /\ args = None
    /\ kwargs = None
    /\ pool = "none"
    /\ ppc = "new"
    /\ chunks = <<>>
    /\ partials = <<>>
    /\ overtaken = FALSE
    /\ taken = <<>>
    /\ result = None
    /\ perr = "none"

CIdle ==
    /\ csize = [int |-> TRUE, value |-> 1]
    /\ endless = FALSE
    /\ exc = "none"

SIdle ==
    /\ stat = "none"
    /\ weights0 = None
    /\ ddof = 0
    /\ spc = "new"
    /\ avgs = None
    /\ avg_of_squares = None
    /\ sum_of_weights = None
    /\ syielded = <<>>
    /\ sreturned = None
    /\ serr = "none"

\* A call on float64 arrays with dtype=None: the arrays argument is a
\* stream, or a single ndarray.
RInit ==
    /\ ufunc \in Ufuncs
    /\ axis \in Axes
    /\ dtype = None
    /\ ignore_nan \in BOOLEAN
    /\ \/ /\ bare = FALSE
          /\ \E arrays \in Streams : source0 = array_stream(FALSE, arrays)
       \/ /\ bare = TRUE
          /\ \E s \in Shapes : \E arrays \in ArraysOf(s) :
                 source0 = array_stream(TRUE, arrays)
    /\ dtypes0 = [i \in 1..Len(source0) |-> "float64"]
    /\ source = source0
    /\ RIdle

\* The call ireduce_ufunc(...): primed runs the generator to its first yield,
\* so the checks run (and raise) in the call; the stream is only wrapped.
Call ==
    /\ pc = "new"
    /\ LET e == check_binary_ufunc(ufunc, ignore_nan)
       IN  IF e # "none"
           THEN /\ pc' = "raised"
                /\ err' = e
           ELSE /\ pc' = "primed"
                /\ err' = err
    /\ UNCHANGED <<config, source, pulled, acc, yielded, heap, held,
                   received, acc_dtype, ydtypes>>
    /\ UNCHANGED <<pvars, svars, cvars>>

\* Faulty variant: on an empty stream the generator ends without a value
\* and without an error.
FirstEmptyStops ==
    /\ pc = "primed"
    /\ exhausted
    /\ Stop
    /\ UNCHANGED <<config, source, pulled, received>>
    /\ UNCHANGED <<pvars, svars, cvars>>

\* First next() on an empty stream: next(arrays) raises StopIteration inside
\* the generator, which Python turns into RuntimeError (PEP 479).
FirstEmpty ==
    /\ pc = "primed"
    /\ exhausted
    /\ Raise("RuntimeError")
    /\ UNCHANGED <<config, source, pulled, received>>
    /\ UNCHANGED <<pvars, svars, cvars>>

\* First next(), stacking: _ireduce_ufunc_new_axis up to its first yield
\* (reached with axis = -1, or through peek and the axis >= ndim fallback).
FirstNewAxis ==
    /\ pc = "primed"
    /\ ~exhausted
    /\ dispatch(axis, incoming(1)) = "new_axis"
    /\ Pull
    /\ LET a == new_axis_create(dtype, incoming(1), dtypes0[1])
       IN  Yield("new_axis", a.array) /\ Kind(a.dtype)
    /\ UNCHANGED config
    /\ UNCHANGED <<pvars, svars, cvars>>

\* Later next(), stacking: one pass of the for loop.
StepNewAxis ==
    /\ pc = "new_axis"
    /\ IF exhausted
       THEN Stop
       ELSE /\ Pull
            /\ IF new_axis_cast_error(dtype, acc_dtype[1], dtypes0[pulled + 1])
               THEN Raise("TypeError")
               ELSE LET a == new_axis_update(ufunc, dtype, acc, acc_dtype[1],
                                             incoming(pulled + 1), dtypes0[pulled + 1])
                    IN  YieldInPlace("new_axis", a.array) /\ Kind(a.dtype)
    /\ UNCHANGED config
    /\ UNCHANGED <<pvars, svars, cvars>>

\* First next(), flatten: _ireduce_ufunc_all_axes up to its first yield.
\* ufunc.reduce(axis=None) of an array of several axes raises ValueError
\* for a ufunc that is not reorderable.
FirstAllAxes ==
    /\ pc = "primed"
    /\ ~exhausted
    /\ dispatch(axis, incoming(1)) = "all_axes"
    /\ Pull
    /\ IF ndim(incoming(1)) > 1 /\ ~reorderable(ufunc)
       THEN Raise("ValueError")
       ELSE LET a == all_axes_create(ufunc, dtype, incoming(1), dtypes0[1])
            IN  Yield("all_axes", a.array) /\ Kind(a.dtype)
    /\ UNCHANGED config
    /\ UNCHANGED <<pvars, svars, cvars>>

\* Later next(), flatten: one pass of the for loop.
StepAllAxes ==
    /\ pc = "all_axes"
    /\ IF exhausted
       THEN Stop
       ELSE /\ Pull
            /\ LET a == all_axes_update(ufunc, dtype, acc, acc_dtype[1],
                                         incoming(pulled + 1), dtypes0[pulled + 1])
               IN  Yield("all_axes", a.array) /\ Kind(a.dtype)
    /\ UNCHANGED config
    /\ UNCHANGED <<pvars, svars, cvars>>

\* Faulty variant: a negative axis counts from the last axis, as numpy
\* indexing does, instead of being refused.
FirstExistingAxisWrapping ==
    /\ pc = "primed"
    /\ ~exhausted
    /\ dispatch(axis, incoming(1)) = "existing_axis"
    /\ Pull
    /\ LET wrapped == IF axis[1] < 0 THEN axis[1] + ndim(incoming(1)) ELSE axis[1]
       IN  IF wrapped \notin 0..(ndim(incoming(1)) - 1)
           THEN Raise("ValueError")
           ELSE LET a == existing_axis_create(ufunc, wrapped, dtype, incoming(1), dtypes0[1])
                IN  Yield("existing_first", a.array) /\ Kind(a.dtype)
    /\ UNCHANGED config
    /\ UNCHANGED <<pvars, svars, cvars>>

\* First next(), existing axis: peek, then _ireduce_ufunc_existing_axis up
\* to its first yield.
FirstExistingAxis ==
    /\ pc = "primed"
    /\ ~exhausted
    /\ dispatch(axis, incoming(1)) = "existing_axis"
    /\ Pull
    /\ IF axis[1] \notin 0..(ndim(incoming(1)) - 1)
       THEN Raise("ValueError")
       ELSE LET a == existing_axis_create(ufunc, axis[1], dtype, incoming(1), dtypes0[1])
            IN  Yield("existing_first", a.array) /\ Kind(a.dtype)
    /\ UNCHANGED config
    /\ UNCHANGED <<pvars, svars, cvars>>

\* Second next(), existing axis: second = next(arrays) is not guarded, so
\* on a stream of one array StopIteration escapes inside the generator and
\* becomes RuntimeError (PEP 479); otherwise np.stack and yield.
SecondExistingAxis ==
    /\ pc = "existing_first"
    /\ IF exhausted
       THEN /\ Raise("RuntimeError")
            /\ UNCHANGED <<source, pulled, received>>
       ELSE /\ Pull
            /\ LET a == existing_axis_stack(ufunc, axis[1], dtype, acc, acc_dtype[1],
                                             incoming(pulled + 1), dtypes0[pulled + 1])
               IN  Yield("existing_axis", a.array) /\ Kind(a.dtype)
    /\ UNCHANGED config
    /\ UNCHANGED <<pvars, svars, cvars>>

\* Later next(), existing axis: one pass of the for loop.
StepExistingAxis ==
    /\ pc = "existing_axis"
    /\ IF exhausted
       THEN Stop
       ELSE /\ Pull
            /\ LET a == existing_axis_grow(ufunc, axis[1], dtype, acc, acc_dtype[1],
                                            incoming(pulled + 1), dtypes0[pulled + 1])
               IN  Yield("existing_axis", a.array) /\ Kind(a.dtype)
    /\ UNCHANGED config
    /\ UNCHANGED <<pvars, svars, cvars>>

Next ==
    \/ Call
    \/ FirstEmpty
    \/ FirstNewAxis
    \/ StepNewAxis
    \/ FirstAllAxes
    \/ StepAllAxes
    \/ FirstExistingAxis
    \/ SecondExistingAxis
    \/ StepExistingAxis

Init == RInit /\ PIdle /\ SIdle /\ CIdle

Spec == Init /\ [][Next]_vars

\* Stream elements of several dtypes: an int8, an int64 and a float64 array,
\* and a Python list of floats.
TypedItems ==
    {typed(ndarray(<<2>>, <<-100, 100>>), "int8"),
     typed(ndarray(<<2>>, <<300, 1>>), "int64"),
     typed(ndarray(<<2>>, <<1, 2>>), "float64"),
     typed([list |-> <<2, 1>>, depth |-> 1], "float64")}

TypedArrays == {t \in TypedItems : ~IsList(t.array)}

\* A call with a dtype argument on a stream of mixed dtypes, or on a single
\* ndarray.
TInit ==
    /\ ufunc \in {"add", "subtract"}
    /\ axis \in {None, <<-1>>, <<0>>, <<1>>}
    /\ dtype \in {None} \cup {<<d>> : d \in Dtypes}
    /\ ignore_nan \in BOOLEAN
    /\ \/ /\ bare = FALSE
          /\ \E ts \in SeqsUpTo(TypedItems, MaxLen) :
                 /\ source0 = array_stream(FALSE, [i \in 1..Len(ts) |-> ts[i].array])
                 /\ dtypes0 = [i \in 1..Len(ts) |-> ts[i].dtype]
       \/ /\ bare = TRUE
          /\ \E t \in TypedArrays :
                 /\ source0 = array_stream(TRUE, t.array)
                 /\ dtypes0 = [i \in 1..Len(source0) |-> t.dtype]
    /\ source = source0
    /\ RIdle

InitTyped == TInit /\ PIdle /\ SIdle /\ CIdle

SpecTyped == InitTyped /\ [][Next]_vars

---------------------------------------------------------------------------
(* preduce and preduce_ufunc: the parallel chunked fold                    *)

Max(a, b) == IF a >= b THEN a ELSE b

\* iter_utils.chunked for chunksize >= 1: tuples of chunksize items in
\* order, the last one holding what is left.
RECURSIVE chunked(_, _)
chunked(iterable, chunksize) ==
    IF iterable = <<>> THEN <<>>
    ELSE IF Len(iterable) <= chunksize THEN <<iterable>>
    ELSE <<SubSeq(iterable, 1, chunksize)>>
         \o chunked(SubSeq(iterable, chunksize + 1, Len(iterable)), chunksize)

\* preduce: chunksize from len(iterable) when it is Sized, else from ntotal.
preduce_chunksize(is_sized, length, nt, procs) ==
    IF is_sized THEN Max(1, length \div procs)
    ELSE IF nt # None THEN Max(1, nt[1] \div procs)
    ELSE 1

\* preduce_ufunc: chunksize from ntotal alone.
preduce_ufunc_chunksize(nt, procs) ==
    IF nt # None THEN Max(1, nt[1] \div procs) ELSE 1

\* func(a, b) for the func handed to preduce: concatenation of tuples
\* (associative, not commutative).
call_func(f, a, b) == a \o b

\* functools.reduce(func, xs) on a non-empty xs.
RECURSIVE functools_reduce(_, _)
functools_reduce(f, xs) ==
    IF Len(xs) = 1 THEN xs[1]
    ELSE call_func(f, functools_reduce(f, SubSeq(xs, 1, Len(xs) - 1)), xs[Len(xs)])

\* Whether the call func(a, b) raises: the func "checked" validates its
\* operands and raises ValueError when one of them holds the item 0.
call_raises(f, a, b) ==
    /\ f = "checked"
    /\ \/ \E i \in 1..Len(a) : a[i] = 0
       \/ \E i \in 1..Len(b) : b[i] = 0

\* functools.reduce(func, ...) after k >= 1 items have been pulled and folded:
\* the value so far, or the exception func raised on the way.
RECURSIVE reduce_upto(_, _, _)
reduce_upto(f, xs, k) ==
    IF k = 1 THEN [err |-> "none", value |-> xs[1]]
    ELSE LET p == reduce_upto(f, xs, k - 1)
         IN  IF p.err # "none" THEN p
             ELSE IF call_raises(f, p.value, xs[k])
             THEN [err |-> "ValueError", value |-> None]
             ELSE [err |-> "none", value |-> call_func(f, p.value, xs[k])]

\* functools.reduce(func, iterable) where the iterable gives the items xs and
\* raises OSError instead of item brk[1] when brk is not None.
reduce_iterable(f, xs, brk) ==
    IF brk = None THEN reduce_upto(f, xs, Len(xs))
    ELSE IF brk[1] = 1 THEN [err |-> "OSError", value |-> None]
    ELSE LET p == reduce_upto(f, xs, brk[1] - 1)
         IN  IF p.err # "none" THEN p ELSE [err |-> "OSError", value |-> None]

\* reduce_ufunc(arrays, ...) where the stream gives the arrays xs and raises
\* OSError instead of array brk[1] when brk is not None.
reduce_ufunc_iterable(u, ax, ign, xs, brk) ==
    IF brk = None THEN reduce_ufunc(u, ax, ign, xs)
    ELSE LET run == ireduce_ufunc(u, ax, ign, SubSeq(xs, 1, brk[1] - 1))
         IN  IF check_binary_ufunc(u, ign) # "none"
             THEN [err |-> check_binary_ufunc(u, ign), value |-> None]
             ELSE IF brk[1] > 1 /\ run.end \in {"ValueError", "TypeError"}
             THEN [err |-> run.end, value |-> None]
             ELSE [err |-> "OSError", value |-> None]

\* Faulty variant: a worker hands back what it had folded when func raised.
worker_result_swallowing(e, u, ax, ign, chunk) ==
    IF e = "preduce" THEN [err |-> "none", value |-> functools_reduce(u, chunk)]
    ELSE reduce_ufunc(u, ax, ign, chunk)

\* What a worker returns for one chunk: partial(reduce, func)(chunk) for
\* preduce, partial(reduce_ufunc, **kwargs)(chunk) for preduce_ufunc.  The
\* empty chunk stands for the task the pool makes of an exception raised
\* while it iterates the chunks: the worker raises it again.
worker_result(e, u, ax, ign, chunk) ==
    IF chunk = <<>> THEN [err |-> "OSError", value |-> None]
    ELSE IF e = "preduce" THEN reduce_upto(u, chunk, Len(chunk))
    ELSE reduce_ufunc(u, ax, ign, chunk)

\* The loop the caller's reduce_ufunc(res, ...) runs over the partial
\* results: the dispatch of ireduce_ufunc on the first of them.
caller_loop(u, ax, ign, head) == dispatch(ax, mapped(u, ign, head))

\* Faulty variant: the caller keeps the latest partial result instead of folding it in.
combine_keep_latest(e, u, ax, ign, k, head, accumulator, value) ==
    IF e = "preduce"
    THEN IF k = 1 THEN value ELSE call_func(u, accumulator, value)
    ELSE new_axis_first(mapped(u, ign, value))

\* The caller folds the k-th partial result into what it has: reduce(func,
\* res) for preduce; for preduce_ufunc reduce_ufunc(res, ...) with the
\* keyword arguments of the call, axis included: the stacking loop copies the
\* first partial result and then applies the ufunc in place, the flatten loop
\* folds scalars, the existing-axis loop reduces every partial result along
\* the axis and stacks what it gets.
combine(e, u, ax, ign, k, head, accumulator, value) ==
    IF e = "preduce"
    THEN IF k = 1 THEN value ELSE call_func(u, accumulator, value)
    ELSE LET v == mapped(u, ign, value)
         IN  CASE caller_loop(u, ax, ign, head) = "new_axis" ->
                     IF k = 1 THEN new_axis_first(v) ELSE new_axis_step(u, accumulator, v)
               [] caller_loop(u, ax, ign, head) = "all_axes" ->
                     IF k = 1 THEN all_axes_first(u, v) ELSE all_axes_step(u, accumulator, v)
               [] caller_loop(u, ax, ign, head) = "existing_axis" ->
                     IF k = 1 THEN existing_axis_first(u, ax[1], v)
                     ELSE IF k = 2 THEN existing_axis_second(u, ax[1], accumulator, v)
                     ELSE existing_axis_step(u, ax[1], accumulator, v)

\* Whether the caller's fold raises on the k-th partial result: func is
\* called in the caller from the second partial result on; in the
\* existing-axis loop np.stack and np.concatenate refuse a reduced partial
\* result whose shape does not fit the accumulator.
combine_raises(e, u, ax, ign, k, head, accumulator, value) ==
    IF e = "preduce" THEN k > 1 /\ call_raises(u, accumulator, value)
    ELSE /\ k > 1
         /\ caller_loop(u, ax, ign, head) = "existing_axis"
         /\ LET r == existing_axis_first(u, ax[1], mapped(u, ign, value))
            IN  IF k = 2 THEN r.shape # accumulator.shape
                ELSE r.shape # SubSeq(accumulator.shape, 1, Len(accumulator.shape) - 1)

\* Whether the caller's fold raises when the partial results run out: the
\* existing-axis loop takes its second array with an unguarded next(), so
\* over a single partial result it ends in RuntimeError.
fold_end_raises(e, u, ax, ign, n, head) ==
    e = "preduce_ufunc" /\ n = 1 /\ caller_loop(u, ax, ign, head) = "existing_axis"

Items == {<<1>>, <<2>>}

\* The items handed to the func that validates its operands.
CheckedItems == {<<0>>, <<1>>}

ParData == {<<1, 2>>, <<NaN, 1>>}

ParArrays == {ndarray(<<2>>, d) : d \in ParData}

Hints == {None, <<1>>, <<MaxHint>>}

\* The axis arguments of preduce_ufunc: stacking, an existing axis, flatten.
ParAxes == {<<-1>>, <<0>>, None}

PInit ==
    /\ entry \in {"preduce", "preduce_ufunc"}
    /\ processes \in 0..MaxProcesses
    /\ ntotal \in Hints
    /\ axis \in IF entry = "preduce" THEN {<<-1>>} ELSE ParAxes
    /\ dtype = None
    /\ bare = FALSE
    /\ IF entry = "preduce"
       THEN /\ \/ /\ ufunc = "concat"
                  /\ source0 \in SeqsUpTo(Items, MaxItems) \ {<<>>}
               \/ /\ ufunc = "checked"
                  /\ source0 \in SeqsUpTo(CheckedItems, MaxItems) \ {<<>>}
            /\ ignore_nan = FALSE
            /\ dtypes0 = <<>>
            /\ sized \in BOOLEAN
       ELSE /\ ufunc \in {"add", "multiply", "subtract"}
            /\ ignore_nan \in BOOLEAN
            /\ source0 \in SeqsUpTo(ParArrays, MaxItems) \ {<<>>}
            /\ dtypes0 = [i \in 1..Len(source0) |-> "float64"]
            /\ sized \in BOOLEAN
    /\ broken \in IF sized THEN {None}
                  ELSE {None} \cup {<<j>> : j \in 1..Len(source0)}
    /\ source = source0
    /\ RIdle
    /\ SIdle
    /\ CIdle
    /\ args = None
    /\ kwargs = None
    /\ pool = "none"
    /\ ppc = "new"
    /\ chunks = <<>>
    /\ partials = <<>>
    /\ overtaken = FALSE
    /\ taken = <<>>
    /\ result = None
    /\ perr = "none"

\* The call raises e; the pool, if one was entered, has been left.
Abort(e, p) ==
    /\ ppc' = "raised"
    /\ perr' = e
    /\ pool' = p
    /\ UNCHANGED <<chunks, partials, overtaken, taken, result>>

\* Pool(processes) entered; the chunks go to pool.imap.
Dispatch(cs) ==
    /\ pool' = "open"
    /\ chunks' = cs
    /\ partials' = [i \in 1..Len(cs) |-> None]
    /\ ppc' = "mapping"
    /\ UNCHANGED <<overtaken, taken, result, perr>>

\* The chunks of pool.imap(reduce, chunked(arrays, chunksize)): the pool
\* iterates the chunked generator itself; when the stream raises, the whole
\* chunks before it have been handed out and the exception becomes one more
\* task (the empty chunk).
lazy_chunks(xs, size, brk) ==
    IF brk = None THEN chunked(xs, size)
    ELSE chunked(SubSeq(xs, 1, ((brk[1] - 1) \div size) * size), size) \o <<<<>>>>

\* The call returns r.value or raises r.err without a pool.
Sequential(r) ==
    /\ result' = r.value
    /\ perr' = r.err
    /\ ppc' = IF r.err = "none" THEN "returned" ELSE "raised"
    /\ UNCHANGED <<pool, chunks, partials, overtaken, taken>>

\* Faulty variant: no shortcut for processes == 1.
PreduceCallAlwaysPool ==
    /\ entry = "preduce"
    /\ ppc = "new"
    /\ IF processes < 1
       THEN Abort("ValueError", "none")
       ELSE IF broken # None
       THEN Abort("OSError", "closed")
       ELSE Dispatch(chunked(source0,
                             preduce_chunksize(sized, Len(source0), ntotal, processes)))
    /\ UNCHANGED pargs
    /\ UNCHANGED <<rvars, svars, cvars>>

\* Faulty variant: the pool is not a context manager and is closed on the
\* normal path only.
PreduceCallLeakingPool ==
    /\ entry = "preduce"
    /\ ppc = "new"
    /\ IF processes = 1
       THEN Sequential(reduce_iterable(ufunc, source0, broken))
       ELSE IF processes < 1
       THEN Abort("ValueError", "none")
       ELSE IF broken # None
       THEN Abort("OSError", "open")
       ELSE Dispatch(chunked(source0,
                             preduce_chunksize(sized, Len(source0), ntotal, processes)))
    /\ UNCHANGED pargs
    /\ UNCHANGED <<rvars, svars, cvars>>

\* preduce(func, iterable, processes=..., ntotal=...) up to pool.imap.
\* Pool(processes) raises ValueError for processes < 1; tuple(chunked(...))
\* runs inside the with block, which leaves the pool when the iterable raises.
PreduceCall ==
    /\ entry = "preduce"
    /\ ppc = "new"
    /\ IF processes = 1
       THEN Sequential(reduce_iterable(ufunc, source0, broken))
       ELSE IF processes < 1
       THEN Abort("ValueError", "none")
       ELSE IF broken # None
       THEN Abort("OSError", "closed")
       ELSE Dispatch(chunked(source0,
                             preduce_chunksize(sized, Len(source0), ntotal, processes)))
    /\ UNCHANGED pargs
    /\ UNCHANGED <<rvars, svars, cvars>>

\* preduce_ufunc(arrays, ufunc, ..., processes=..., ntotal=...) up to pool.imap.
PreduceUfuncCall ==
    /\ entry = "preduce_ufunc"
    /\ ppc = "new"
    /\ IF processes = 1
       THEN Sequential(reduce_ufunc_iterable(ufunc, axis, ignore_nan, source0, broken))
       ELSE IF processes < 1
       THEN Abort("ValueError", "none")
       ELSE Dispatch(lazy_chunks(source0, preduce_ufunc_chunksize(ntotal, processes),
                                 broken))
    /\ UNCHANGED pargs
    /\ UNCHANGED <<rvars, svars, cvars>>

\* A worker finishes chunk i.  The pool hands the chunks out in order to
\* `processes` workers, so chunk i runs only while fewer than `processes`
\* earlier chunks are unfinished; which running chunk finishes first is free.
WorkerDone(i) ==
    /\ ppc = "mapping"
    /\ pool = "open"
    /\ partials[i] = None
    /\ Cardinality({j \in 1..(i - 1) : partials[j] = None}) < processes
    /\ partials' = [partials EXCEPT
                       ![i] = <<worker_result(entry, ufunc, axis, ignore_nan, chunks[i])>>]
    /\ overtaken' = (overtaken \/ \E j \in 1..(i - 1) : partials[j] = None)
    /\ UNCHANGED <<pargs, pool, ppc, chunks, taken, result, perr>>
    /\ UNCHANGED <<rvars, svars, cvars>>

\* The first partial result the caller's fold received, partial result i
\* being the one it receives now.
head_partial(i) ==
    IF taken = <<>> THEN partials[i][1].value ELSE partials[taken[1]][1].value

\* Faulty variant: the results are handed out as they arrive (imap_unordered).
RetrieveAsTheyArrive ==
    /\ ppc = "mapping"
    /\ \E i \in 1..Len(chunks) :
           /\ partials[i] # None
           /\ \A j \in 1..Len(taken) : taken[j] # i
           /\ taken' = Append(taken, i)
           /\ IF partials[i][1].err # "none"
              THEN /\ perr' = partials[i][1].err
                   /\ ppc' = "raised"
                   /\ pool' = "closed"
                   /\ UNCHANGED result
              ELSE IF combine_raises(entry, ufunc, axis, ignore_nan, Len(taken) + 1,
                                     head_partial(i), result, partials[i][1].value)
              THEN /\ perr' = "ValueError"
                   /\ ppc' = "raised"
                   /\ pool' = "closed"
                   /\ UNCHANGED result
              ELSE /\ result' = combine(entry, ufunc, axis, ignore_nan, Len(taken) + 1,
                                        head_partial(i), result, partials[i][1].value)
                   /\ UNCHANGED <<perr, ppc, pool>>
    /\ UNCHANGED <<pargs, chunks, partials, overtaken>>
    /\ UNCHANGED <<rvars, svars, cvars>>

\* The caller's fold pulls the next result from the imap iterator, which
\* hands the results out in chunk order, waiting for the next chunk's worker.
\* A worker's exception is raised here, and so is what func raises in the
\* caller's own fold; the with block then leaves the pool.
Retrieve ==
    /\ ppc = "mapping"
    /\ Len(taken) < Len(chunks)
    /\ LET i == Len(taken) + 1
       IN  /\ partials[i] # None
           /\ taken' = Append(taken, i)
           /\ IF partials[i][1].err # "none"
              THEN /\ perr' = partials[i][1].err
                   /\ ppc' = "raised"
                   /\ pool' = "closed"
                   /\ UNCHANGED result
              ELSE IF combine_raises(entry, ufunc, axis, ignore_nan, i,
                                     head_partial(i), result, partials[i][1].value)
              THEN /\ perr' = "ValueError"
                   /\ ppc' = "raised"
                   /\ pool' = "closed"
                   /\ UNCHANGED result
              ELSE /\ result' = combine(entry, ufunc, axis, ignore_nan, i,
                                        head_partial(i), result, partials[i][1].value)
                   /\ UNCHANGED <<perr, ppc, pool>>
    /\ UNCHANGED <<pargs, chunks, partials, overtaken>>
    /\ UNCHANGED <<rvars, svars, cvars>>

\* The imap iterator is exhausted: the fold returns, the with block closes
\* the pool, the call returns.
Return ==
    /\ ppc = "mapping"
    /\ Len(taken) = Len(chunks)
    /\ IF fold_end_raises(entry, ufunc, axis, ignore_nan, Len(taken),
                          partials[taken[1]][1].value)
       THEN /\ ppc' = "raised"
            /\ perr' = "RuntimeError"
       ELSE /\ ppc' = "returned"
            /\ perr' = perr
    /\ pool' = "closed"
    /\ UNCHANGED <<pargs, chunks, partials, overtaken, taken, result>>
    /\ UNCHANGED <<rvars, svars, cvars>>

NextPar ==
    \/ PreduceCall
    \/ PreduceUfuncCall
    \/ \E i \in 1..Len(chunks) : WorkerDone(i)
    \/ Retrieve
    \/ Return

SpecPar == PInit /\ [][NextPar]_vars

---------------------------------------------------------------------------
(* Properties of the reduction engine                                      *)

ArithmeticUfuncs == {"add", "multiply", "subtract"}

\* The generator is suspended at a yield of one of the three loops.
AtYield == pc \in {"new_axis", "all_axes", "existing_first", "existing_axis"}

\* The call returned a generator (the configuration was accepted).
Started == pc \notin {"new", "raised"}

\* The left fold op(...op(op(x1, x2), x3)..., xk) of the first k arrays.
RECURSIVE LeftFold(_, _, _)
LeftFold(u, xs, k) ==
    IF k = 1 THEN xs[1]
    ELSE [shape |-> xs[1].shape,
          data  |-> [i \in 1..Len(xs[1].data) |->
                        apply(u, LeftFold(u, xs, k - 1).data[i], xs[k].data[i])]]

\* op.reduce(np.stack(xs, axis=-1), axis=-1): per entry, across the stream.
StackReduce(u, xs) ==
    [shape |-> xs[1].shape,
     data  |-> [i \in 1..Len(xs[1].data) |->
                   reduce_1d(u, [k \in 1..Len(xs) |-> xs[k].data[i]])]]

\* C1: in stacking mode (axis=-1) the k-th value yielded is the left fold of
\* the first k arrays in stream order (the first value being x1 itself), and
\* once the stream is exhausted the last value is op.reduce over the arrays
\* stacked along a new trailing axis.
C1_StackingIsLeftFold ==
    (axis = <<-1>> /\ ~ignore_nan /\ ufunc \in ArithmeticUfuncs) =>
        /\ \A k \in 1..Len(yielded) : yielded[k] = LeftFold(ufunc, source0, k)
        /\ pc = "stopped" =>
              /\ Len(yielded) = Len(source0)
              /\ yielded[Len(yielded)] = StackReduce(ufunc, source0)

C1_Witness ==
    /\ axis = <<-1>>
    /\ ~ignore_nan
    /\ ufunc = "subtract"
    /\ pc = "stopped"
    /\ Len(yielded) = 3
    /\ yielded[3].data = <<-2, -1>>

\* The ufunc can be reduced in the requested axis mode (numpy refuses
\* axis=None on arrays of several axes for a ufunc that is not reorderable).
AxisSupported ==
    ~(axis = None /\ ndim(source0[1]) > 1 /\ ~reorderable(ufunc))

\* C2: for a stream of n >= 1 arrays and every axis mode (axis=-1, an
\* existing axis, None, axis >= rank) the generator yields exactly n values,
\* the k-th right after the k-th array is pulled, and then ends by plain
\* exhaustion, never by an error, n = 1 included.
C2_OneValuePerArrayThenStop ==
    (Started /\ Len(source0) >= 1 /\ axis # <<-2>> /\ AxisSupported) =>
        /\ pc # "failed"
        /\ AtYield => Len(yielded) = pulled
        /\ pc = "stopped" => Len(yielded) = Len(source0)

\* The error the claim expects from the call itself.
ExpectedCallError ==
    IF ufunc = "lambda" THEN "TypeError"
    ELSE IF ufunc \in {"absolute", "greater"} THEN "ValueError"
    ELSE IF ignore_nan /\ ufunc = "subtract" THEN "ValueError"
    ELSE "none"

C4_InputsNeverModified ==
    pc = "stopped" => source = source0

\* The stream in which every NaN has been replaced by e.
ReplaceNaN(xs, e) ==
    [i \in 1..Len(xs) |->
        [shape |-> xs[i].shape,
         data  |-> [j \in 1..Len(xs[i].data) |->
                       IF xs[i].data[j] = NaN THEN e ELSE xs[i].data[j]]]]

AllNaN(a) == \A j \in 1..Len(a.data) : a.data[j] = NaN

\* C8: with ignore_nan=True and a ufunc of identity e the generator yields,
\* in every axis mode, what ireduce_ufunc(ignore_nan=False) yields on the
\* stream whose NaNs have been replaced by e (and ends the same way); with
\* add in stacking mode a trailing all-NaN array leaves the sum unchanged.
C8_IgnoreNaNIsIdentityFill ==
    (ignore_nan /\ ufunc \in {"add", "multiply"}) =>
        LET e   == IF ufunc = "add" THEN 0 ELSE 1
            run == ireduce_ufunc(ufunc, axis, FALSE, ReplaceNaN(source0, e))
            n   == Len(yielded)
        IN  /\ n <= Len(run.values)
            /\ \A k \in 1..n : yielded[k] = run.values[k]
            /\ pc = "stopped" => (run.end = "stopped" /\ n = Len(run.values))
            /\ pc = "failed" => (run.end = err /\ n = Len(run.values))
            /\ (/\ pc = "stopped"
                /\ axis = <<-1>>
                /\ ufunc = "add"
                /\ n >= 2
                /\ AllNaN(source0[n])) => yielded[n] = yielded[n - 1]

C8_Witness ==
    /\ ignore_nan
    /\ ufunc = "multiply"
    /\ axis = <<0>>
    /\ pc = "stopped"
    /\ Len(yielded) = 3
    /\ \E i \in 1..3 : AllNaN(source0[i])
    /\ \E i \in 1..3 : ~AllNaN(source0[i])

\* The shape of one array reduced along `ax`, as the stream position axis is
\* appended to it: (1,) when the reduction leaves a scalar.
LocallyReducedShape(shape, ax) ==
    IF Len(shape) = 1 THEN <<1>>
    ELSE SubSeq(shape, 1, ax) \o SubSeq(shape, ax + 2, Len(shape))

InExistingAxisMode ==
    /\ Started
    /\ Len(source0) >= 1
    /\ axis # None
    /\ axis[1] \in 0..(ndim(source0[1]) - 1)

\* C9: in existing-axis mode the value yielded after the k-th array has
\* shape (*locally_reduced_shape, k) for every k >= 1, the first included.
C9_ShapeIsReducedShapeThenK ==
    InExistingAxisMode =>
        \A k \in 1..Len(yielded) :
            yielded[k].shape = LocallyReducedShape(source0[1].shape, axis[1]) \o <<k>>

RoutedToStacking ==
    /\ Started
    /\ Len(source0) >= 1
    /\ axis # None
    /\ (axis = <<-1>> \/ axis[1] >= ndim(source0[1]))

\* C10: axis=-1 and every integer axis >= the rank of the first array run
\* the stacking loop: every value has the shape of one input array and is
\* the value the stacking mode (axis=-1) yields at that step; axis=-1 never
\* reduces along the last existing axis.
C10_DispatchToStacking ==
    RoutedToStacking =>
        LET run == ireduce_ufunc(ufunc, <<-1>>, ignore_nan, source0)
        IN  /\ pc \in {"primed", "new_axis", "stopped"}
            /\ Len(yielded) <= Len(run.values)
            /\ \A k \in 1..Len(yielded) :
                  /\ yielded[k].shape = source0[1].shape
                  /\ yielded[k] = run.values[k]
            /\ pc = "stopped" => Len(yielded) = Len(source0)

C10_Witness ==
    /\ axis = <<2>>
    /\ source0 # <<>>
    /\ ndim(source0[1]) = 2
    /\ ufunc = "add"
    /\ pc = "stopped"
    /\ Len(yielded) = 3
    /\ yielded[3].shape = <<2, 1>>

\* The loop that runs once the first array is known.
Mode == dispatch(axis, asarray(source0[1]))

\* What the consumer reads now through the value it was handed at step j.
ReadNow(j) == heap[held[j]]

\* Every step handed out one and the same object, which shows the latest result.
SameObjectEveryStep ==
    \A j \in 1..Len(held) :
        /\ held[j] = held[1]
        /\ ReadNow(j) = yielded[Len(yielded)]

\* Every step handed out a new object, and none was changed afterwards.
FreshObjectEveryStep ==
    /\ \A i, j \in 1..Len(held) : i # j => held[i] # held[j]
    /\ \A j \in 1..Len(held) : ReadNow(j) = yielded[j]

\* C11 as claimed: in stacking mode and in flatten mode (axis=None) every
\* step yields the same accumulator object, so a value obtained at step j
\* shows the step-k result after step k > j; in existing-axis mode every step
\* yields a fresh array that later steps never change.
C11_AliasingInStackingAndFlatten ==
    yielded # <<>> =>
        /\ Mode \in {"new_axis", "all_axes"} => SameObjectEveryStep
        /\ Mode = "existing_axis" => FreshObjectEveryStep

\* C11 amended: only stacking mode yields the same accumulator object at
\* every step (a value obtained at step j shows the step-k result after step
\* k > j); flatten mode (axis=None) and existing-axis mode yield a fresh
\* value at every step, and a value yielded earlier is never changed.
C11_AliasingInStackingOnly ==
    yielded # <<>> =>
        /\ Mode = "new_axis" => SameObjectEveryStep
        /\ Mode \in {"all_axes", "existing_axis"} => FreshObjectEveryStep

C11_Witness ==
    /\ axis = <<-1>>
    /\ ufunc = "add"
    /\ pc = "stopped"
    /\ Len(yielded) = 3
    /\ yielded[1] # yielded[3]
    /\ heap[held[1]] = yielded[3]
    /\ held = <<1, 1, 1>>

\* C12: the dtype of the accumulator is fixed when the first array is
\* pulled: every value yielded by one run has the same dtype, the dtype
\* argument when one is given and otherwise the dtype of the first array.
C12_DtypeFixedAtFirstPull ==
    \A k \in 1..Len(ydtypes) :
        ydtypes[k] = (IF dtype # None THEN dtype[1] ELSE dtypes0[1])

\* The dtype the accumulator is created with.
ResolvedDtype == IF dtype # None THEN dtype[1] ELSE dtypes0[1]

\* The first element of the stream as an array, cast entry by entry to d.
FirstElementAs(d) ==
    LET x == source0[1]
        a == IF IsList(x) THEN [shape |-> <<Len(x.list)>>, data |-> x.list] ELSE x
    IN  [shape |-> a.shape,
         data  |-> [i \in 1..Len(a.data) |->
                       IF d = "int8"
                       THEN IF a.data[i] % 256 >= 128 THEN (a.data[i] % 256) - 256
                            ELSE a.data[i] % 256
                       ELSE a.data[i]]]

\* C13: a bare ndarray passed as the stream is a stream of length 1 holding
\* that very array (it is not iterated along its first axis); every element
\* the decorated function receives is an ndarray; and a stream of one element
\* reduced in stacking mode yields exactly one value, that array cast to the
\* resolved dtype.
C13_BareArrayIsStreamOfOne ==
    /\ bare => \E t \in TypedArrays : source0 = <<t.array>>
    /\ \A i \in 1..Len(received) : ~IsList(received[i])
    /\ (Len(source0) = 1 /\ Mode = "new_axis") =>
          /\ pc # "failed"
          /\ pc \in {"new_axis", "stopped"} =>
                yielded = <<FirstElementAs(ResolvedDtype)>>

C13_Witness ==
    /\ bare
    /\ dtype = <<"int8">>
    /\ dtypes0 = <<"int64">>
    /\ axis = <<-1>>
    /\ pc = "stopped"
    /\ yielded = <<[shape |-> <<2>>, data |-> <<44, 1>>]>>

---------------------------------------------------------------------------
(* Properties of the parallel fold                                         *)

\* The items of a run of chunks, in order.
RECURSIVE Flatten(_)
Flatten(cs) == IF cs = <<>> THEN <<>> ELSE cs[1] \o Flatten(Tail(cs))

\* functools.reduce(func, iterable) returns: neither func nor the iterable raises.
SequentialFoldReturns == reduce_iterable(ufunc, source0, broken).err = "none"

\* C5: preduce with processes >= 2 and an associative, non-commutative func
\* returns functools.reduce(func, iterable) whatever the order in which the
\* workers finish: the partial results are folded in chunk order, so after
\* t of them the caller holds the fold of the items of chunks 1..t.
C5_PreduceFoldsInChunkOrder ==
    (entry = "preduce" /\ processes >= 2 /\ SequentialFoldReturns) =>
        /\ \A j \in 1..Len(taken) : taken[j] = j
        /\ taken # <<>> =>
              result = functools_reduce(ufunc, Flatten(SubSeq(chunks, 1, Len(taken))))
        /\ ppc # "raised"
        /\ ppc = "returned" => result = functools_reduce(ufunc, source0)

C5_Witness ==
    /\ entry = "preduce"
    /\ processes = 2
    /\ ppc = "returned"
    /\ overtaken
    /\ Len(chunks) = 4
    /\ result = <<1, 2, 2, 1>>

\* C6: with processes=1 no pool is created and nothing is chunked: preduce
\* returns the sequential fold of the items, and preduce_ufunc returns what
\* reduce_ufunc returns on the same stream (in stacking mode the left fold of
\* the arrays when NaNs are kept) or raises what reduce_ufunc raises.
C6_OneProcessIsSequential ==
    (processes = 1 /\ ppc # "new") =>
        /\ pool = "none"
        /\ chunks = <<>>
        /\ (entry = "preduce" /\ SequentialFoldReturns) =>
              (ppc = "returned" /\ result = Flatten(source0))
        /\ (entry = "preduce_ufunc" /\ broken = None) =>
              LET r == reduce_ufunc(ufunc, axis, ignore_nan, source0)
              IN  /\ perr = r.err
                  /\ ppc = (IF r.err = "none" THEN "returned" ELSE "raised")
                  /\ ppc = "returned" => result = r.value
                  /\ (axis = <<-1>> /\ ~ignore_nan) =>
                        (/\ ppc = "returned"
                         /\ result = LeftFold(ufunc, source0, Len(source0)))

C6_Witness ==
    /\ processes = 1
    /\ ppc = "returned"
    /\ entry = "preduce"
    /\ pool = "none"
    /\ result = <<2, 1, 1>>

\* C7: in stacking mode with an associative ufunc preduce_ufunc returns what
\* reduce_ufunc returns on the same stream, for every processes >= 1 and
\* every ntotal hint, also a hint that is not the length of the stream.
C7_PreduceUfuncEqualsReduceUfunc ==
    (/\ entry = "preduce_ufunc"
     /\ axis = <<-1>>
     /\ ufunc \in {"add", "multiply"}
     /\ processes >= 1
     /\ broken = None) =>
        /\ ppc # "raised"
        /\ ppc = "returned" =>
              result = reduce_ufunc(ufunc, axis, ignore_nan, source0).value

C7_Witness ==
    /\ entry = "preduce_ufunc"
    /\ ufunc = "add"
    /\ processes = 2
    /\ ntotal = <<4>>
    /\ Len(source0) = 3
    /\ Len(chunks) = 2
    /\ overtaken
    /\ ppc = "returned"
    /\ ~ignore_nan
    /\ result.data = <<3, 6>>

\* The call has come back to the caller.
Exited == ppc \in {"returned", "raised"}

\* C14: every call of preduce or preduce_ufunc with processes != 1 has left
\* its worker pool torn down when control is back with the caller: on normal
\* return, when func raised in a worker, and when the input iterable raised
\* while it was being chunked (no pool is left behind either when Pool()
\* itself refuses processes < 1).
C14_PoolTornDownOnEveryExit ==
    (processes # 1 /\ Exited) =>
        /\ pool # "open"
        /\ processes >= 2 => pool = "closed"

C14_Witness ==
    /\ entry = "preduce"
    /\ processes = 2
    /\ broken = <<3>>
    /\ ppc = "raised"
    /\ perr = "OSError"
    /\ pool = "closed"

\* func raises while a worker folds chunk i: the chunk has at least two
\* items (func is not called on a single item) and one of them is refused.
FuncRaisesOnChunk(i) ==
    /\ ufunc = "checked"
    /\ Len(chunks[i]) >= 2
    /\ \E k \in 1..Len(chunks[i]) : chunks[i][k] = <<0>>

\* C15: when func raises in the worker of chunk i, preduce raises that
\* exception when the caller retrieves the result of chunk i: the results of
\* the chunks before i have been combined, nothing is retrieved or combined
\* after it, and the call returns no value.
C15_WorkerErrorRaisedAtRetrieval ==
    (entry = "preduce" /\ ppc # "new") =>
        /\ \A i \in 1..Len(taken) :
              FuncRaisesOnChunk(i) =>
                  /\ i = Len(taken)
                  /\ ppc = "raised"
                  /\ perr = "ValueError"
                  /\ pool = "closed"
                  /\ result = (IF i = 1 THEN None
                               ELSE Flatten(Flatten(SubSeq(chunks, 1, i - 1))))
        /\ ppc = "returned" => \A i \in 1..Len(chunks) : ~FuncRaisesOnChunk(i)

C15_Witness ==
    /\ entry = "preduce"
    /\ processes = 2
    /\ Len(chunks) = 2
    /\ ~FuncRaisesOnChunk(1)
    /\ FuncRaisesOnChunk(2)
    /\ taken = <<1, 2>>
    /\ ppc = "raised"
    /\ perr = "ValueError"
    /\ result = <<1, 1>>

---------------------------------------------------------------------------
(* stats.py: floating-point results as exact ratios                        *)

Abs(n) == IF n < 0 THEN -n ELSE n

Sign(n) == IF n < 0 THEN -1 ELSE IF n = 0 THEN 0 ELSE 1

RECURSIVE gcd(_, _)
gcd(a, b) == IF b = 0 THEN a ELSE gcd(b, a % b)

\* The float p / q as a ratio in lowest terms with a positive denominator;
\* a zero denominator gives what IEEE division gives: <<0, 0>> is nan,
\* <<1, 0>> is inf and <<-1, 0>> is -inf.
Ratio(p, q) ==
    IF q = 0 THEN <<Sign(p), 0>>
    ELSE LET g == gcd(Abs(p), Abs(q))
         IN  <<Sign(q) * (p \div g), Abs(q) \div g>>

\* x / y on two entries of arrays.
entry_divide(x, y) == IF x = NaN \/ y = NaN THEN <<0, 0>> ELSE Ratio(x, y)

RMul(a, b) == Ratio(a[1] * b[1], a[2] * b[2])

RSub(a, b) == Ratio(a[1] * b[2] - b[1] * a[2], a[2] * b[2])

\* The number of entries of an array of at most two dimensions.
size(shape) ==
    IF shape = <<>> THEN 1
    ELSE IF Len(shape) = 1 THEN shape[1]
    ELSE shape[1] * shape[2]

\* np.broadcast_to(a, shape) for a scalar or an array of that shape.
broadcast_to(a, shape) ==
    IF a.shape = shape THEN a
    ELSE ndarray(shape, [i \in 1..size(shape) |-> a.data[1]])

\* operator.truediv(a, b) on two arrays (b may be a scalar): entry by entry.
truediv(a, b) ==
    LET d == broadcast_to(b, a.shape)
    IN  ndarray(a.shape,
                [i \in 1..Len(a.data) |-> entry_divide(a.data[i], d.data[i])])

---------------------------------------------------------------------------
(* stats.py: the running sums of _iaverage and _ivar                       *)

\* weights=None: repeat(1).
default_weight == typed(ndarray(<<>>, <<1>>), "int64")

weight_of(weights, k) == IF weights = None THEN default_weight ELSE weights[k]

\* np.logical_not(np.isnan(arr)) * wgt
not_nan_times(arr, wgt) ==
    ndarray(arr.shape,
            [i \in 1..Len(arr.data) |->
                IF arr.data[i] = NaN THEN 0 ELSE wgt.data[i]])

\* Faulty variant: a NaN entry keeps its weight.
stream_weight_counting_nan(ign, first, arr, wgt) == broadcast_to(wgt, first.shape)

\* The weight array _iaverage and _ivar stream for one array: broadcast to
\* the shape of the first array and, with ignore_nan, zero where arr is NaN.
stream_weight(ign, first, arr, wgt) ==
    LET w == broadcast_to(wgt, first.shape)
    IN  IF ign THEN not_nan_times(arr, w) ELSE w

\* np.square(arr)
square(arr) == ufunc_call("multiply", arr, arr)

\* One more array into an isum accumulator (stacking, axis=-1): with
\* ignore_nan the array goes through np.nan_to_num first; the first array
\* creates the accumulator, the others are added in place.
isum_next(ign, override, accumulator, array, d) ==
    LET a == IF ign THEN nan_to_num(array, 0) ELSE array
    IN  IF accumulator = None THEN new_axis_create(override, a, d)
        ELSE new_axis_update("add", override, accumulator.array,
                             accumulator.dtype, a, d)

\* The in-place addition raises: the sum does not cast to the accumulator.
isum_raises(override, accumulator, d) ==
    /\ accumulator # None
    /\ new_axis_cast_error(override, accumulator.dtype, d)

\* _iaverage takes the fast path: zip(isum(arrays, dtype=float), count(1)).
iaverage_fast(weights, ign, ax) == weights = None /\ ~ign /\ ax = <<-1>>

\* The pair (weighted_sum, sum_of_weights) of _iaverage before any array.
iaverage_new == [weighted_sum |-> None, sum_of_weights |-> None]

\* Faulty variant: the arrays are summed without their weights.
iaverage_next_unweighted(st, fast, ign, first, arr, d, wgt) ==
    LET w == stream_weight(ign, first, arr, wgt.array)
    IN  [weighted_sum |-> isum_next(ign, <<"float64">>, st.weighted_sum, arr, d),
         sum_of_weights |->
             isum_next(FALSE, <<"float64">>, st.sum_of_weights, w, wgt.dtype)]

\* One next() of _iaverage: the pair it yields after one more array arr of
\* dtype d with weight wgt.
iaverage_next(st, fast, ign, first, arr, d, wgt) ==
    IF fast
    THEN [weighted_sum |-> isum_next(FALSE, <<"float64">>, st.weighted_sum, arr, d),
          sum_of_weights |->
              typed(ndarray(<<>>, <<IF st.sum_of_weights = None THEN 1
                                     ELSE st.sum_of_weights.array.data[1] + 1>>),
                    "int64")]
    ELSE LET w == stream_weight(ign, first, arr, wgt.array)
         IN  [weighted_sum |->
                  isum_next(ign, <<"float64">>, st.weighted_sum,
                            ufunc_call("multiply", arr, w),
                            result_type(d, wgt.dtype)),
              sum_of_weights |->
                  isum_next(FALSE, <<"float64">>, st.sum_of_weights, w, wgt.dtype)]

\* iaverage: truediv(*element) on the pair _iaverage yields.
iaverage_value(st) == truediv(st.weighted_sum.array, st.sum_of_weights.array)

\* ivar: (sq_avg - avg ** 2) * (swgt / (swgt - ddof))
ivar_value(avg, sq_avg, swgt, dd) ==
    ndarray(avg.shape,
            [i \in 1..Len(avg.data) |->
                RMul(RSub(sq_avg.data[i], RMul(avg.data[i], avg.data[i])),
                     entry_divide(swgt.data[i],
                                  apply("subtract", swgt.data[i], dd)))])

\* average and mean: total_sum / total_weight on the last pair of _iaverage.
average_value(st) == truediv(st.weighted_sum.array, st.sum_of_weights.array)

\* average_and_var, var: (sq_avg - avg ** 2) * (swgt / (swgt - ddof))
var_value(avg, sq_avg, swgt, dd) ==
    ndarray(avg.shape,
            [i \in 1..Len(avg.data) |->
                RMul(RSub(sq_avg.data[i], RMul(avg.data[i], avg.data[i])),
                     entry_divide(swgt.data[i],
                                  apply("subtract", swgt.data[i], dd)))])

\* np.sqrt of one entry p / q, kept exact as the triple <<p, q, 2>>: nan for
\* nan, for -inf and for a negative entry, inf for inf.
sqrt_entry(r) ==
    IF r[2] = 0 THEN (IF r[1] = 1 THEN <<1, 0, 2>> ELSE <<0, 0, 2>>)
    ELSE IF r[1] < 0 THEN <<0, 0, 2>>
    ELSE <<r[1], r[2], 2>>

\* np.sqrt(a), entry by entry.
sqrt(a) == ndarray(a.shape, [i \in 1..Len(a.data) |-> sqrt_entry(a.data[i])])

\* The argument of np.sqrt in sem and isem:
\* (sq_avg - avg ** 2) * (1 / (swgt - ddof))
sem_radicand(avg, sq_avg, swgt, dd) ==
    ndarray(avg.shape,
            [i \in 1..Len(avg.data) |->
                RMul(RSub(sq_avg.data[i], RMul(avg.data[i], avg.data[i])),
                     entry_divide(1, apply("subtract", swgt.data[i], dd)))])

\* sem: np.sqrt((sq_avg - avg ** 2) * (1 / (swgt - ddof))) on the last triple.
sem_value(avg, sq_avg, swgt, dd) == sqrt(sem_radicand(avg, sq_avg, swgt, dd))

\* isem: the same expression on every triple of _ivar.
isem_value(avg, sq_avg, swgt, dd) == sqrt(sem_radicand(avg, sq_avg, swgt, dd))

\* The ddof a function uses when the caller leaves it out.
default_ddof(s) == IF s = "isem" THEN 1 ELSE 0

\* What a function of the average family makes of a pair of _iaverage.
average_family_value(s, st) ==
    IF s \in {"average", "mean"} THEN average_value(st) ELSE iaverage_value(st)

\* What a function of the variance family makes of a triple of _ivar.
variance_family_value(s, avg, sq_avg, swgt, dd) ==
    CASE s = "ivar" -> ivar_value(avg, sq_avg, swgt, dd)
      [] s = "var"  -> var_value(avg, sq_avg, swgt, dd)
      [] s = "istd" -> sqrt(ivar_value(avg, sq_avg, swgt, dd))
      [] s = "std"  -> sqrt(var_value(avg, sq_avg, swgt, dd))
      [] s = "isem" -> isem_value(avg, sq_avg, swgt, dd)
      [] s = "sem"  -> sem_value(avg, sq_avg, swgt, dd)

---------------------------------------------------------------------------
(* stats.py: the statistics on a stream, axis = -1                         *)

\* Entries of the arrays of a statistics stream.
StatData == {<<1, 2>>, <<NaN, 3>>, <<2, NaN>>}

StatArrays == {ndarray(<<2>>, d) : d \in StatData}

\* The weights: a Python float, and an array of integers.
WeightItems == {typed(ndarray(<<>>, <<2>>), "float64"),
                typed(ndarray(<<2>>, <<1, 3>>), "int64")}

Stats == {"iaverage", "average", "imean", "mean",
          "ivar", "var", "istd", "std", "isem", "sem"}

\* The functions built on _iaverage, and those built on _ivar.
AverageFamily == {"iaverage", "average", "imean", "mean"}

VarianceFamily == {"ivar", "var", "istd", "std", "isem", "sem"}

\* The i-functions are generators; the others consume theirs with last().
Streaming == stat \in {"iaverage", "imean", "ivar", "istd", "isem"}

\* The call: nothing runs until the first next() (average and var run to
\* the end at once, which the steps below do one array at a time).
SInit ==
    /\ stat \in Stats
    /\ ddof \in IF stat \in VarianceFamily THEN {0, 1} ELSE {0}
    /\ ufunc = "add"
    /\ axis = <<-1>>
    /\ dtype = None
    /\ ignore_nan \in BOOLEAN
    /\ bare = FALSE
    /\ source0 \in SeqsUpTo(StatArrays, MaxLen)
    /\ dtypes0 = [i \in 1..Len(source0) |-> "float64"]
    /\ weights0 \in IF stat \in {"imean", "mean"} THEN {None}
                     ELSE {None} \cup [1..Len(source0) -> WeightItems]
    /\ source = source0
    /\ RIdle
    /\ PIdle
    /\ CIdle
    /\ spc = "new"
    /\ avgs = iaverage_new
    /\ avg_of_squares = iaverage_new
    /\ sum_of_weights = None
    /\ syielded = <<>>
    /\ sreturned = None
    /\ serr = "none"

\* What a step leaves alone: the inputs are read, never written.
SFrame ==
    /\ UNCHANGED <<config, source, pc, acc, yielded, err, heap, held,
                   received, acc_dtype, ydtypes>>
    /\ UNCHANGED <<pvars, sargs, cvars>>

\* The value is yielded by the generators, kept as the last one by last().
Produce(value) ==
    /\ spc' = "yielded"
    /\ syielded' = IF Streaming THEN Append(syielded, value) ELSE syielded
    /\ sreturned' = IF Streaming THEN sreturned ELSE <<value>>
    /\ serr' = serr

\* First next() on an empty stream: peek (or the first pull of isum) raises
\* StopIteration inside a generator, which becomes RuntimeError.
StatsEmpty ==
    /\ stat # "none"
    /\ spc = "new"
    /\ Len(source) = 0
    /\ spc' = "failed"
    /\ serr' = "RuntimeError"
    /\ UNCHANGED <<pulled, avgs, avg_of_squares, sum_of_weights, syielded,
                   sreturned>>
    /\ SFrame

\* One next() of _iaverage / iaverage: one more array and its weight go
\* into the two sums, and the quotient is yielded.
IAverageNext ==
    /\ stat \in AverageFamily
    /\ spc \in {"new", "yielded"}
    /\ pulled < Len(source)
    /\ pulled' = pulled + 1
    /\ avgs' = iaverage_next(avgs, iaverage_fast(weights0, ignore_nan, axis),
                             ignore_nan, asarray(source[1]),
                             asarray(source[pulled + 1]), dtypes0[pulled + 1],
                             weight_of(weights0, pulled + 1))
    /\ Produce(average_family_value(stat, avgs'))
    /\ UNCHANGED <<avg_of_squares, sum_of_weights>>
    /\ SFrame

\* The weight _ivar hands to its three sums for array number pulled + 1.
ivar_weight ==
    LET w == weight_of(weights0, pulled + 1)
    IN  typed(stream_weight(ignore_nan, asarray(source[1]),
                            asarray(source[pulled + 1]), w.array), w.dtype)

\* One next() of _ivar / ivar: zip advances avgs, avg_of_squares and
\* sum_of_weights by one array each, in this order.
IVarNext ==
    /\ stat \in VarianceFamily
    /\ spc \in {"new", "yielded"}
    /\ pulled < Len(source)
    /\ pulled' = pulled + 1
    /\ avgs' = iaverage_next(avgs, FALSE, ignore_nan, asarray(source[1]),
                             asarray(source[pulled + 1]), dtypes0[pulled + 1],
                             ivar_weight)
    /\ avg_of_squares' =
           iaverage_next(avg_of_squares, FALSE, ignore_nan,
                         square(asarray(source[1])),
                         square(asarray(source[pulled + 1])),
                         dtypes0[pulled + 1], ivar_weight)
    /\ IF isum_raises(None, sum_of_weights, ivar_weight.dtype)
       THEN /\ spc' = "failed"
            /\ serr' = "TypeError"
            /\ UNCHANGED <<sum_of_weights, syielded, sreturned>>
       ELSE /\ sum_of_weights' = isum_next(ignore_nan, None, sum_of_weights,
                                           ivar_weight.array, ivar_weight.dtype)
            /\ Produce(variance_family_value(stat, iaverage_value(avgs'),
                                             iaverage_value(avg_of_squares'),
                                             sum_of_weights'.array, ddof))
    /\ SFrame

\* next() after the last array: the stream is exhausted, the generator ends
\* (and average and var return the last value).
StatsStop ==
    /\ stat # "none"
    /\ spc = "yielded"
    /\ pulled = Len(source)
    /\ spc' = IF Streaming THEN "stopped" ELSE "returned"
    /\ UNCHANGED <<pulled, avgs, avg_of_squares, sum_of_weights, syielded,
                   sreturned, serr>>
    /\ SFrame

NextStats ==
    \/ StatsEmpty
    \/ IAverageNext
    \/ IVarNext
    \/ StatsStop

SpecStats == SInit /\ [][NextStats]_vars

---------------------------------------------------------------------------
(* Running weighted mean                                                   *)

RECURSIVE SumTo(_, _)
SumTo(f, k) == IF k = 0 THEN 0 ELSE SumTo(f, k - 1) + f[k]

\* Entry i of input array j, and the weight of that entry (1 without weights).
X(j, i) == source0[j].data[i]

W(j, i) ==
    IF weights0 = None THEN 1
    ELSE IF weights0[j].array.shape = <<>> THEN weights0[j].array.data[1]
    ELSE weights0[j].array.data[i]

\* (sum over j <= k of w_j * x_j) / (sum over j <= k of w_j) at entry i; a
\* NaN among the x_j makes it NaN.
WeightedMean(k, i) ==
    IF \E j \in 1..k : X(j, i) = NaN THEN <<0, 0>>
    ELSE Ratio(SumTo([j \in 1..k |-> W(j, i) * X(j, i)], k),
               SumTo([j \in 1..k |-> W(j, i)], k))

WeightedMeans(k) ==
    ndarray(source0[1].shape,
            [i \in 1..Len(source0[1].data) |-> WeightedMean(k, i)])

\* C16: for arrays x1..xn with weights w1..wn (every weight 1 when weights
\* is None) the k-th value iaverage yields is, entry by entry,
\* (sum over i <= k of w_i * x_i) / (sum over i <= k of w_i), for every k
\* from 1 to n, and average returns the n-th of these values.
C16_RunningWeightedMean ==
    (stat \in {"iaverage", "average"} /\ ~ignore_nan) =>
        /\ \A k \in 1..Len(syielded) : syielded[k] = WeightedMeans(k)
        /\ spc = "stopped" => Len(syielded) = Len(source0)
        /\ spc = "returned" => sreturned = <<WeightedMeans(Len(source0))>>

\* Three weighted arrays averaged by iaverage, the last mean not an integer.
C16_Witness ==
    /\ stat = "iaverage"
    /\ ~ignore_nan
    /\ weights0 # None
    /\ spc = "stopped"
    /\ Len(syielded) = 3
    /\ weights0[1] # weights0[2]
    /\ syielded[3].data[1][2] > 1

---------------------------------------------------------------------------
(* NaN entries are given weight zero                                       *)

\* The weighted sum of the non-NaN entries among x_1[i] .. x_k[i].
SumOfNonNaN(k, i) ==
    SumTo([j \in 1..k |-> IF X(j, i) = NaN THEN 0 ELSE W(j, i) * X(j, i)], k)

\* The sum of the weights of those non-NaN entries only.
WeightOfNonNaN(k, i) ==
    SumTo([j \in 1..k |-> IF X(j, i) = NaN THEN 0 ELSE W(j, i)], k)

NaNMeans(k) ==
    ndarray(source0[1].shape,
            [i \in 1..Len(source0[1].data) |->
                Ratio(SumOfNonNaN(k, i), WeightOfNonNaN(k, i))])

\* C17: with ignore_nan=True a NaN entry has weight zero: at every position
\* the mean and the weighted average are the weighted sum of the non-NaN
\* entries at that position divided by the sum of the weights of those
\* entries only (0 / 0, NaN, where every entry so far is NaN).
C17_NaNEntriesGetWeightZero ==
    (stat \in {"iaverage", "average"} /\ ignore_nan) =>
        /\ \A k \in 1..Len(syielded) : syielded[k] = NaNMeans(k)
        /\ spc = "returned" => sreturned = <<NaNMeans(Len(source0))>>

\* A weighted average over three arrays, the second of them NaN at the
\* first position: the value there is defined and its weight left out.
C17_Witness ==
    /\ stat = "iaverage"
    /\ ignore_nan
    /\ weights0 # None
    /\ Len(syielded) = 3
    /\ X(1, 1) # NaN
    /\ X(2, 1) = NaN
    /\ X(3, 1) # NaN
    /\ syielded[3].data[1] = Ratio(W(1, 1) * X(1, 1) + W(3, 1) * X(3, 1),
                                   W(1, 1) + W(3, 1))

---------------------------------------------------------------------------
(* Running weighted variance                                               *)

\* The weight entry j counts with: zero for a NaN entry under ignore_nan.
Wv(j, i) == IF ignore_nan /\ X(j, i) = NaN THEN 0 ELSE W(j, i)

\* The value entry j counts with: a NaN entry under ignore_nan adds nothing.
Xv(j, i) == IF ignore_nan /\ X(j, i) = NaN THEN 0 ELSE X(j, i)

NaNCounted(k, i) == ~ignore_nan /\ \E j \in 1..k : X(j, i) = NaN

\* W_k: the sum of the weights of the first k arrays at entry i.
SumW(k, i) == SumTo([j \in 1..k |-> Wv(j, i)], k)

\* E_k[X] at entry i.
MeanX(k, i) ==
    IF NaNCounted(k, i) THEN <<0, 0>>
    ELSE Ratio(SumTo([j \in 1..k |-> Wv(j, i) * Xv(j, i)], k), SumW(k, i))

\* E_k[X^2] at entry i.
MeanX2(k, i) ==
    IF NaNCounted(k, i) THEN <<0, 0>>
    ELSE Ratio(SumTo([j \in 1..k |-> Wv(j, i) * Xv(j, i) * Xv(j, i)], k),
               SumW(k, i))

\* (E_k[X^2] - E_k[X]^2) * W_k / (W_k - ddof)
Variances(k) ==
    ndarray(source0[1].shape,
            [i \in 1..Len(source0[1].data) |->
                RMul(RSub(MeanX2(k, i), RMul(MeanX(k, i), MeanX(k, i))),
                     Ratio(SumW(k, i), SumW(k, i) - ddof))])

\* C18: the k-th value ivar yields is (E_k[X^2] - E_k[X]^2) * W_k /
\* (W_k - ddof), the weighted mean, the weighted mean of squares and the sum
\* of weights all taken over exactly the first k arrays; ivar yields one
\* value per array and var returns the value for k = n.
C18_RunningVarianceInLockstep ==
    stat \in {"ivar", "var"} =>
        /\ serr # "TypeError"
        /\ \A k \in 1..Len(syielded) : syielded[k] = Variances(k)
        /\ spc = "stopped" => Len(syielded) = Len(source0)
        /\ spc = "returned" => sreturned = <<Variances(Len(source0))>>

---------------------------------------------------------------------------
(* Every generator of the library: ireduce_ufunc, iaverage and ivar        *)

\* A call of ireduce_ufunc, or a call of a statistics function.
InitStreams == Init \/ SInit

NextStreams ==
    \/ stat = "none" /\ Next
    \/ NextStats

SpecStreams == InitStreams /\ [][NextStreams]_vars

\* C19: nothing is pulled from the input before the consumer asks for the
\* first value, and whenever ireduce_ufunc, iaverage or ivar is suspended
\* at a yield it has pulled exactly as many arrays as it has yielded
\* values: no generator reads ahead.
C19_PullsEqualYields ==
    /\ stat = "none" =>
           /\ pc \in {"new", "primed", "raised"} => pulled = 0
           /\ AtYield => pulled = Len(yielded)
    /\ Streaming =>
           /\ spc = "new" => pulled = 0
           /\ spc = "yielded" => pulled = Len(syielded)

\* ireduce_ufunc suspended after its second value along an existing axis,
\* one array of the stream still unread.
C19_Witness ==
    /\ stat = "none"
    /\ pc = "existing_axis"
    /\ Len(yielded) = 2
    /\ pulled = 2
    /\ Len(source) = 3

---------------------------------------------------------------------------
(* parallel.py: pmap and pmap_unordered                                    *)

\* The funcs handed to pmap: identity(obj, *args, **kwargs) returns its
\* first positional argument; total(*xs, scale=1) returns scale * sum(xs).
MapFuncs == {"identity", "total"}

\* The iterables mapped: list(range(1, n + 1)), so that every item (and
\* every mapped value) is told apart from the others.
MapIterables == {[i \in 1..n |-> i] : n \in 0..MaxItems}

\* The calls made: func, args and kwargs (kwargs alone as in the tests, none,
\* and both).
MapCalls == {<<"identity", None, None>>, <<"identity", None, <<2>>>>,
             <<"total", None, None>>, <<"total", <<5>>, <<2>>>>}

\* partial(func, *args, **kwargs)(item): args come before the item.
call_partial(f, a, kw, item) ==
    IF f = "identity" THEN (IF a = None THEN item ELSE a[1])
    ELSE (IF kw = None THEN 1 ELSE kw[1]) * ((IF a = None THEN 0 ELSE a[1]) + item)

\* What a worker returns for one task of pool.imap: func on every item.
map_chunk(f, a, kw, chunk) ==
    [k \in 1..Len(chunk) |-> call_partial(f, a, kw, chunk[k])]

\* pmap: chunksize from len(iterable) when it is Sized, else from ntotal.
pmap_chunksize(is_sized, length, nt, procs) ==
    IF is_sized THEN Max(1, length \div procs)
    ELSE IF nt # None THEN Max(1, nt[1] \div procs)
    ELSE 1

\* The number of items of the tasks in cs.
RECURSIVE count_items(_, _)
count_items(cs, tk) ==
    IF tk = <<>> THEN 0 ELSE Len(cs[tk[1]]) + count_items(cs, Tail(tk))

\* Faulty variant: a finished task is handed out again.
imap_unordered_ready_again(tk, ps, c) == ps[c] # None

\* pool.imap_unordered hands out the result of task c next: any task whose
\* worker is done and whose result has not been handed out yet.
imap_unordered_ready(tk, ps, c) ==
    /\ \A j \in 1..Len(tk) : tk[j] # c
    /\ ps[c] # None

\* Faulty variant: any finished task is handed out, as pool.imap_unordered does.
imap_ready_unordered(tk, ps, c) == imap_unordered_ready(tk, ps, c)

\* pool.imap hands out the result of task c next: the tasks come back in
\* the order they were submitted, each one once its worker is done.
imap_ready(tk, ps, c) ==
    /\ c = Len(tk) + 1
    /\ ps[c] # None

\* The task the generator takes next from the pool.
task_ready(e, tk, ps, c) ==
    IF e = "pmap" THEN imap_ready(tk, ps, c) ELSE imap_unordered_ready(tk, ps, c)

MapEntries == {"pmap", "pmap_unordered"}

\* The call pmap(...) or pmap_unordered(func, iterable, args, kwargs,
\* processes, ntotal): a generator, nothing runs before the first next().
MInit ==
    /\ entry \in MapEntries
    /\ processes \in 0..MaxProcesses
    /\ sized \in BOOLEAN
    /\ ntotal \in IF sized THEN {None} ELSE Hints
    /\ \E call \in MapCalls :
           /\ ufunc = call[1]
           /\ args = call[2]
           /\ kwargs = call[3]
    /\ source0 \in MapIterables
    /\ broken = None
    /\ axis = <<-1>>
    /\ dtype = None
    /\ bare = FALSE
    /\ ignore_nan = FALSE
    /\ dtypes0 = <<>>
    /\ source = source0
    /\ RIdle
    /\ SIdle
    /\ CIdle
    /\ pool = "none"
    /\ ppc = "new"
    /\ chunks = <<>>
    /\ partials = <<>>
    /\ overtaken = FALSE
    /\ taken = <<>>
    /\ result = <<>>
    /\ perr = "none"

\* First next(), up to the first wait: with processes == 1 the generator
\* delegates to map; otherwise it enters Pool(processes), which raises
\* ValueError for processes < 1, and hands the iterable to pool.imap.
PmapStart ==
    /\ entry \in MapEntries
    /\ ppc = "new"
    /\ IF processes = 1
       THEN /\ ppc' = "map"
            /\ UNCHANGED <<pool, chunks, partials, overtaken, taken, result, perr>>
       ELSE IF processes < 1
       THEN Abort("ValueError", "none")
       ELSE Dispatch(chunked(source0,
                             pmap_chunksize(sized, Len(source0), ntotal, processes)))
    /\ UNCHANGED pargs
    /\ UNCHANGED <<rvars, svars, cvars>>

\* processes == 1: yield from map(func, iterable), one item per next().
MapYield ==
    /\ entry \in MapEntries
    /\ ppc = "map"
    /\ Len(result) < Len(source0)
    /\ result' = Append(result,
                        call_partial(ufunc, args, kwargs, source0[Len(result) + 1]))
    /\ UNCHANGED <<pargs, pool, ppc, chunks, partials, overtaken, taken, perr>>
    /\ UNCHANGED <<rvars, svars, cvars>>

\* processes == 1: the iterable is exhausted, the generator returns.
MapStop ==
    /\ entry \in MapEntries
    /\ ppc = "map"
    /\ Len(result) = Len(source0)
    /\ ppc' = "returned"
    /\ UNCHANGED <<pargs, pool, chunks, partials, overtaken, taken, result, perr>>
    /\ UNCHANGED <<rvars, svars, cvars>>

\* A worker finishes task i of pool.imap (at most `processes` tasks run at
\* a time, handed out in order; which of them finishes first is free).
MapWorkerDone(i) ==
    /\ entry \in MapEntries
    /\ ppc = "mapping"
    /\ pool = "open"
    /\ partials[i] = None
    /\ Cardinality({j \in 1..(i - 1) : partials[j] = None}) < processes
    /\ partials' = [partials EXCEPT
                       ![i] = <<map_chunk(ufunc, args, kwargs, chunks[i])>>]
    /\ overtaken' = (overtaken \/ \E j \in 1..(i - 1) : partials[j] = None)
    /\ UNCHANGED <<pargs, pool, ppc, chunks, taken, result, perr>>
    /\ UNCHANGED <<rvars, svars, cvars>>

\* One next() of pmap with a pool: the next item of the task being handed
\* out, or the first item of the next task the pool has ready.
PmapYield(c) ==
    /\ entry \in MapEntries
    /\ ppc = "mapping"
    /\ LET done == count_items(chunks, taken)
       IN  IF Len(result) < done
           THEN /\ c = taken[Len(taken)]
                /\ taken' = taken
                /\ result' = Append(result,
                       partials[c][1][Len(chunks[c]) - (done - Len(result)) + 1])
           ELSE /\ task_ready(entry, taken, partials, c)
                /\ taken' = Append(taken, c)
                /\ result' = Append(result, partials[c][1][1])
    /\ UNCHANGED <<pargs, pool, ppc, chunks, partials, overtaken, perr>>
    /\ UNCHANGED <<rvars, svars, cvars>>

\* next() after the last item: pool.imap is exhausted, the with block is
\* left (the pool is terminated) and the generator returns.
PmapStop ==
    /\ entry \in MapEntries
    /\ ppc = "mapping"
    /\ Len(result) = Len(source0)
    /\ pool' = "closed"
    /\ ppc' = "returned"
    /\ UNCHANGED <<pargs, chunks, partials, overtaken, taken, result, perr>>
    /\ UNCHANGED <<rvars, svars, cvars>>

NextMap ==
    \/ PmapStart
    \/ MapYield
    \/ MapStop
    \/ \E i \in 1..Len(chunks) : MapWorkerDone(i)
    \/ \E c \in 1..Len(chunks) : PmapYield(c)
    \/ PmapStop

SpecMap == MInit /\ [][NextMap]_vars

\* list(map(partial(func, *args, **kwargs), iterable))
Mapped == [i \in 1..Len(source0) |-> call_partial(ufunc, args, kwargs, source0[i])]

\* C20: for processes >= 1 and whatever the order in which the workers
\* finish, what pmap has yielded is always the beginning of
\* list(map(func, iterable)) with args and kwargs applied to every call, and
\* all of it, element for element, once pmap is exhausted.
C20_PmapPreservesOrder ==
    (entry = "pmap" /\ processes >= 1) =>
        /\ Len(result) <= Len(source0)
        /\ result = SubSeq(Mapped, 1, Len(result))
        /\ ppc # "raised"
        /\ ppc = "returned" => result = Mapped

\* pmap exhausted after a later task finished before an earlier one, on an
\* iterable whose mapped values differ, with args and kwargs given.
C20_Witness ==
    /\ entry = "pmap"
    /\ processes >= 2
    /\ overtaken
    /\ ppc = "returned"
    /\ args # None
    /\ kwargs # None
    /\ Len(result) = MaxItems
    /\ result[1] # result[2]

\* C21: for processes >= 1 pmap_unordered yields one mapped value per item
\* of the iterable and nothing else, whatever the order in which the tasks
\* arrive: no value twice, every value one of list(map(func, iterable)), all
\* of them once it is exhausted; with processes = 1 they come in order.
C21_PmapUnorderedIsPermutation ==
    (entry = "pmap_unordered" /\ processes >= 1) =>
        /\ ppc # "raised"
        /\ \A i, j \in 1..Len(result) : result[i] = result[j] => i = j
        /\ \A i \in 1..Len(result) : \E k \in 1..Len(Mapped) : result[i] = Mapped[k]
        /\ ppc = "returned" => Len(result) = Len(Mapped)
        /\ processes = 1 => result = SubSeq(Mapped, 1, Len(result))

\* pmap_unordered exhausted, the values not in the order of the iterable.
C21_Witness ==
    /\ entry = "pmap_unordered"
    /\ processes >= 2
    /\ ppc = "returned"
    /\ Len(result) = MaxItems
    /\ result # Mapped
    /\ kwargs # None

---------------------------------------------------------------------------
(* iter_utils.py: chunked, the generator                                   *)

\* Chunks requested from an iterable that never ends.
MaxChunks == 3

\* The chunksize arguments: integers (a negative one and zero included) and
\* a float.
Chunksizes ==
    {[int |-> TRUE, value |-> k] : k \in (-1)..(MaxItems + 1)}
        \cup {[int |-> FALSE, value |-> 2]}

\* The iterables chunked: list(range(1, n + 1)), or itertools.count(1).
item(i) == IF endless THEN i ELSE source0[i]

\* The items left in the iterable after p of them have been pulled, at most n.
remaining(p, n) ==
    IF endless THEN n ELSE IF Len(source0) - p < n THEN Len(source0) - p ELSE n

\* Faulty variant: a last chunk shorter than chunksize is dropped.
next_chunk_full_only(p, n) ==
    IF remaining(p, n) < n THEN <<>> ELSE [k \in 1..n |-> item(p + k)]

\* tuple(islice(iterable, chunksize)) after p items have been pulled.
next_chunk(p, n) == [k \in 1..remaining(p, n) |-> item(p + k)]

\* The call chunked(iterable, chunksize) has not run yet.
CInit ==
    /\ csize \in Chunksizes
    /\ endless \in BOOLEAN
    /\ exc = "none"
    /\ source0 \in IF endless THEN {<<>>} ELSE MapIterables
    /\ ufunc = "add"
    /\ axis = <<-1>>
    /\ dtype = None
    /\ ignore_nan = FALSE
    /\ bare = FALSE
    /\ dtypes0 = <<>>
    /\ source = source0
    /\ RIdle
    /\ PIdle
    /\ SIdle

\* What chunked leaves alone.
CFrame ==
    /\ UNCHANGED <<config, source, acc, heap, held, received, acc_dtype, ydtypes>>
    /\ UNCHANGED <<pvars, svars, cvars>>

\* Faulty variant: the check of chunksize is left to the first next().
ChunkedCallUnchecked ==
    /\ pc = "new"
    /\ pc' = "primed"
    /\ UNCHANGED <<pulled, yielded, err>>
    /\ CFrame

\* The call chunked(iterable, chunksize): primed runs the generator to its
\* first yield, so a chunksize that is not an int raises TypeError here.
ChunkedCall ==
    /\ pc = "new"
    /\ IF ~csize.int
       THEN /\ pc' = "raised"
            /\ err' = "TypeError"
       ELSE /\ pc' = "primed"
            /\ err' = err
    /\ UNCHANGED <<pulled, yielded>>
    /\ CFrame

\* next(): islice pulls up to chunksize items; a non-empty tuple is yielded,
\* an empty one ends the generator; islice rejects a negative chunksize.
ChunkedNext ==
    /\ pc \in {"primed", "chunk"}
    /\ endless => Len(yielded) < MaxChunks
    /\ IF csize.value < 0
       THEN /\ pc' = "failed"
            /\ err' = "ValueError"
            /\ UNCHANGED <<pulled, yielded>>
       ELSE LET chunk == next_chunk(pulled, csize.value)
            IN  /\ pulled' = pulled + Len(chunk)
                /\ err' = err
                /\ IF chunk = <<>>
                   THEN /\ pc' = "stopped"
                        /\ yielded' = yielded
                   ELSE /\ pc' = "chunk"
                        /\ yielded' = Append(yielded, chunk)
    /\ CFrame

NextChunked ==
    \/ ChunkedCall
    \/ ChunkedNext

SpecChunked == CInit /\ [][NextChunked]_vars

\* The chunks are non-empty, hold at most chunksize items, exactly chunksize
\* but for the last, and together are the items pulled so far, in order.
ChunksContiguous ==
    /\ \A m \in 1..Len(yielded) :
           /\ Len(yielded[m]) >= 1
           /\ Len(yielded[m]) <= csize.value
           /\ m < Len(yielded) => Len(yielded[m]) = csize.value
    /\ Flatten(yielded) = SubSeq(source0, 1, pulled)

\* C22 as stated: for a finite iterable and an integer chunksize >= 1 the
\* chunks are non-empty and contiguous, their concatenation is the iterable,
\* every chunk is full but possibly the last, and a chunksize larger than
\* the iterable yields a single chunk.
C22_ChunksPartitionSingleChunk ==
    (~endless /\ csize.int /\ csize.value >= 1) =>
        /\ pc # "failed"
        /\ ChunksContiguous
        /\ pc = "stopped" =>
               /\ Flatten(yielded) = source0
               /\ csize.value > Len(source0) => Len(yielded) = 1

\* C22, amended: as above, and a chunksize larger than a non-empty iterable
\* yields a single chunk, while an empty iterable yields no chunk at all.
C22_ChunksPartitionTheIterable ==
    (~endless /\ csize.int /\ csize.value >= 1) =>
        /\ pc # "failed"
        /\ ChunksContiguous
        /\ pc = "stopped" =>
               /\ Flatten(yielded) = source0
               /\ (source0 # <<>> /\ csize.value > Len(source0)) => Len(yielded) = 1
               /\ source0 = <<>> => yielded = <<>>

\* An iterable of four items cut in chunks of three: a full chunk and a
\* last chunk of one.
C22_Witness ==
    /\ ~endless
    /\ pc = "stopped"
    /\ csize.value = 3
    /\ Len(source0) = 4
    /\ Len(yielded) = 2
    /\ Len(yielded[2]) = 1

\* C27: a chunksize that is not an int raises TypeError at the call; nothing
\* is pulled by the call; once the m-th chunk has been obtained from an
\* iterable that holds that many items, exactly m * chunksize items have
\* been pulled, and every chunk of an endless iterable is full.
C27_ChunkedIsLazyAndChecksEagerly ==
    /\ pc \in {"new", "primed", "raised"} => pulled = 0
    /\ ~csize.int => (pc \in {"new", "raised"} /\ (pc = "raised" => err = "TypeError"))
    /\ csize.int => pc # "raised"
    /\ (pc = "chunk" /\ (endless \/ Len(yielded) * csize.value <= Len(source0))) =>
           /\ pulled = Len(yielded) * csize.value
           /\ Len(yielded[Len(yielded)]) = csize.value
    /\ (endless /\ csize.value >= 1) => pc # "stopped"
    /\ (csize.int /\ csize.value >= 0) => pulled <= Len(yielded) * csize.value

\* The third chunk of an endless iterable: full, nothing read ahead.
C27_Witness ==
    /\ endless
    /\ pc = "chunk"
    /\ csize.value = 2
    /\ Len(yielded) = MaxChunks
    /\ pulled = 2 * MaxChunks

---------------------------------------------------------------------------
(* reduce.py: an axis below -1                                             *)

\* C23: with an axis below -1 and a ufunc that is accepted, ireduce_ufunc
\* never yields a value, and on a stream that holds an array (whose rank the
\* axis is compared with) the first next() raises ValueError, after the
\* first array has been pulled.
C23_AxisBelowMinusOneRejected ==
    (axis # None /\ axis[1] < -1) =>
        /\ yielded = <<>>
        /\ ~AtYield
        /\ pc # "stopped"
        /\ (pc = "failed" /\ Len(source0) >= 1) => (err = "ValueError" /\ pulled = 1)

\* axis = -2 on a stream of arrays of two axes: refused at the first next().
C23_Witness ==
    /\ axis = <<-2>>
    /\ Len(source0) >= 2
    /\ ndim(source0[1]) = 2
    /\ pc = "failed"
    /\ err = "ValueError"
    /\ yielded = <<>>

---------------------------------------------------------------------------
(* iter_utils.py: last                                                     *)

\* The exceptions a stream handed to last may raise while it is consumed.
StreamErrors == {"ValueError", "IndexError", "KeyError", "RuntimeError"}

\* The exception that leaves last when deque(stream, maxlen=1)[0] raises e:
\* the try block spans the consumption of the stream, so `except IndexError`
\* also catches an IndexError of the stream.
last_raises(e) == IF e = "IndexError" THEN "RuntimeError" ELSE e

\* last(stream) has not been called: the stream holds the items 1..n, and
\* may raise exc instead of giving item j (broken = <<j>>).
LInit ==
    /\ source0 \in MapIterables
    /\ \/ broken = None /\ exc = "none"
       \/ broken \in {<<j>> : j \in 1..(Len(source0) + 1)} /\ exc \in StreamErrors
    /\ entry = "last"
    /\ processes = 1
    /\ ntotal = None
    /\ sized = FALSE
    /\ args = None
    /\ kwargs = None
    /\ pool = "none"
    /\ ppc = "new"
    /\ chunks = <<>>
    /\ partials = <<>>
    /\ overtaken = FALSE
    /\ taken = <<>>
    /\ result = None
    /\ perr = "none"
    /\ ufunc = "add"
    /\ axis = <<-1>>
    /\ dtype = None
    /\ ignore_nan = FALSE
    /\ bare = FALSE
    /\ dtypes0 = <<>>
    /\ source = source0
    /\ RIdle
    /\ SIdle
    /\ csize = [int |-> TRUE, value |-> 1]
    /\ endless = FALSE

\* What last leaves alone.
LFrame ==
    /\ UNCHANGED <<config, source, pc, acc, yielded, heap, held, received,
                   acc_dtype, ydtypes, err>>
    /\ UNCHANGED <<pargs, pool, chunks, partials, overtaken, svars, cvars>>

\* deque(stream, maxlen=1) takes the next item of the stream and keeps only
\* that one (taken is the deque), or the stream raises.
LastPull ==
    /\ entry = "last"
    /\ ppc \in {"new", "consuming"}
    /\ pulled < Len(source0) \/ broken = <<pulled + 1>>
    /\ IF broken = <<pulled + 1>>
       THEN /\ ppc' = "raised"
            /\ perr' = last_raises(exc)
            /\ UNCHANGED <<pulled, taken, result>>
       ELSE /\ ppc' = "consuming"
            /\ pulled' = pulled + 1
            /\ taken' = <<source0[pulled + 1]>>
            /\ UNCHANGED <<result, perr>>
    /\ LFrame

\* The stream is exhausted: deque(...)[0] is returned, or raises IndexError
\* on an empty deque, which becomes RuntimeError("Empty stream").
LastReturn ==
    /\ entry = "last"
    /\ ppc \in {"new", "consuming"}
    /\ pulled = Len(source0)
    /\ broken # <<pulled + 1>>
    /\ IF taken = <<>>
       THEN /\ ppc' = "raised"
            /\ perr' = "RuntimeError"
            /\ result' = result
       ELSE /\ ppc' = "returned"
            /\ result' = <<taken[1]>>
            /\ perr' = perr
    /\ UNCHANGED <<pulled, taken>>
    /\ LFrame

NextLast ==
    \/ LastPull
    \/ LastReturn

SpecLast == LInit /\ [][NextLast]_vars

\* C24: last returns the final item of a non-empty finite stream once it
\* has consumed all of it, raises RuntimeError for an empty stream, and an
\* exception raised by the stream while it is consumed leaves last as it is.
C24_LastItemOrTheStreamsError ==
    /\ ppc = "returned" =>
           /\ broken = None
           /\ pulled = Len(source0)
           /\ result = <<source0[Len(source0)]>>
    /\ (ppc = "raised" /\ broken = None) =>
           (source0 = <<>> /\ perr = "RuntimeError")
    /\ (ppc = "raised" /\ broken # None) => perr = exc
    /\ (broken = None /\ source0 # <<>>) => ppc # "raised"

---------------------------------------------------------------------------
(* reduce.py: the flatten fold                                             *)

\* The entries of the k-th array as the loop receives them, in storage order.
Entries(k) == mapped(ufunc, ignore_nan, source0[k]).data

\* s_k: the k-th array reduced to one entry.
ScalarOf(k) == reduce_1d(ufunc, Entries(k))

\* acc_1 = s_1 and acc_k = op(acc_{k-1}, s_k).
RECURSIVE ScalarFold(_)
ScalarFold(k) ==
    IF k = 1 THEN ScalarOf(1) ELSE apply(ufunc, ScalarFold(k - 1), ScalarOf(k))

\* All the entries of the first k arrays, one array after the other.
RECURSIVE EntriesUpTo(_)
EntriesUpTo(k) == IF k = 0 THEN <<>> ELSE EntriesUpTo(k - 1) \o Entries(k)

\* C25: with axis=None the k-th value yielded is the scalar acc_k, where
\* acc_1 = s_1, acc_k = op(acc_{k-1}, s_k) and s_i is the i-th array reduced
\* over all its entries; for add and multiply acc_k is the reduction of all
\* the entries of the first k arrays.
C25_FlattenFoldsScalars ==
    (axis = None /\ ufunc \in ArithmeticUfuncs) =>
        /\ \A k \in 1..Len(yielded) :
               /\ yielded[k] = ndarray(<<>>, <<ScalarFold(k)>>)
               /\ reorderable(ufunc) =>
                      yielded[k].data[1] = reduce_1d(ufunc, EntriesUpTo(k))
        /\ (pc = "stopped" /\ source0 # <<>>) => Len(yielded) = Len(source0)

\* Three arrays of two axes multiplied down to one scalar, step by step.
C25_Witness ==
    /\ axis = None
    /\ ufunc = "multiply"
    /\ ~ignore_nan
    /\ pc = "stopped"
    /\ Len(yielded) = 3
    /\ ndim(source0[1]) = 2
    /\ yielded[3].data[1] \notin {NaN, yielded[2].data[1]}

---------------------------------------------------------------------------
(* parallel.py, reduce.py: the chunk size of the parallel fold             *)

\* L: the length of a sized input, else the ntotal hint, else None.
KnownOrHintedLength == IF sized THEN <<Len(source0)>> ELSE ntotal

\* max(1, floor(L / processes)), and 1 without L.
RuleChunksize ==
    IF KnownOrHintedLength = None THEN 1
    ELSE Max(1, KnownOrHintedLength[1] \div processes)

\* C26: once the parallel fold (preduce or preduce_ufunc, processes >= 2)
\* has cut its input into chunks, the chunks are those of the chunk size
\* max(1, floor(L / processes)), L being the length of a sized input and
\* otherwise the ntotal hint, and of chunk size 1 without either.
C26_ChunksizeFromLengthOrHint ==
    (entry \in {"preduce", "preduce_ufunc"} /\ processes >= 2 /\ broken = None
        /\ ppc \in {"mapping", "returned"}) =>
            chunks = chunked(source0, RuleChunksize)

\* The same statement for preduce alone.
C26_ChunksizeOfPreduce == entry = "preduce" => C26_ChunksizeFromLengthOrHint

---------------------------------------------------------------------------
(* reduce.py: the empty stream                                             *)

\* C28: on an empty stream no value is ever yielded and nothing is pulled;
\* with a ufunc that is accepted the call returns a generator, whose first
\* next() raises in every axis mode instead of ending quietly; and
\* reduce_ufunc on the empty stream raises and returns nothing.
C28_EmptyStreamYieldsNothing ==
    source0 = <<>> =>
        /\ yielded = <<>>
        /\ pulled = 0
        /\ ~AtYield
        /\ pc # "stopped"
        /\ check_binary_ufunc(ufunc, ignore_nan) = "none" =>
               /\ pc \in {"new", "primed", "failed"}
               /\ pc = "failed" => err = "RuntimeError"
        /\ reduce_ufunc(ufunc, axis, ignore_nan, source0).err # "none"
        /\ reduce_ufunc(ufunc, axis, ignore_nan, source0).value = None

\* The first next() on an empty stream with an existing axis requested.
C28_Witness ==
    /\ source0 = <<>>
    /\ axis = <<0>>
    /\ ufunc = "add"
    /\ pc = "failed"
    /\ err = "RuntimeError"

---------------------------------------------------------------------------
(* reduce.py: preduce_ufunc along an existing axis and flattened           *)

\* preduce_ufunc is called with several processes, add or multiply, and a
\* stream on which reduce_ufunc with the same arguments returns a value.
ParallelCase(ax) ==
    /\ entry = "preduce_ufunc"
    /\ axis = ax
    /\ ufunc \in {"add", "multiply"}
    /\ processes >= 2
    /\ broken = None
    /\ reduce_ufunc(ufunc, axis, ignore_nan, source0).err = "none"

\* preduce_ufunc does not raise and returns what reduce_ufunc returns.
AgreesWithReduceUfunc ==
    /\ ppc # "raised"
    /\ ppc = "returned" => result = reduce_ufunc(ufunc, axis, ignore_nan, source0).value

\* C29: for add and multiply, every processes >= 2 and every ntotal,
\* preduce_ufunc returns the value reduce_ufunc returns on the same stream,
\* with axis an existing axis and with axis=None.
C29_PreduceUfuncAgreesOffTheStackingAxis ==
    (ParallelCase(<<0>>) \/ ParallelCase(None)) => AgreesWithReduceUfunc

\* The same statement for axis=None alone.
C29_PreduceUfuncAgreesFlattened == ParallelCase(None) => AgreesWithReduceUfunc

---------------------------------------------------------------------------
(* stats.py: the total statistics and their streaming counterparts         *)

\* The streaming counterpart of a total statistics function.
Counterpart(s) ==
    CASE s = "average" -> "iaverage"
      [] s = "mean" -> "imean"
      [] s = "var" -> "ivar"
      [] s = "std" -> "istd"
      [] s = "sem" -> "isem"

\* The last value the streaming function s yields on the stream consumed so
\* far when it is called with ddof = dd and otherwise the same arguments: it
\* reads the same _iaverage or _ivar stream as the total function.
LastStreamed(s, dd) ==
    IF s \in AverageFamily THEN average_family_value(s, avgs)
    ELSE variance_family_value(s, iaverage_value(avgs), iaverage_value(avg_of_squares),
                               sum_of_weights.array, dd)

\* The total function returned the last value of its streaming counterpart,
\* called with the same ddof, and also when ddof is left out in both calls.
ReturnedLastStreamed ==
    /\ sreturned = <<LastStreamed(Counterpart(stat), ddof)>>
    /\ ddof = default_ddof(stat) =>
           sreturned = <<LastStreamed(Counterpart(stat), default_ddof(Counterpart(stat)))>>

\* C30: average, mean, var, std and sem return the last value that iaverage,
\* imean, ivar, istd and isem yield when called with the same arguments,
\* arguments left at their defaults included.
C30_TotalIsLastOfStreaming ==
    (stat \in Stats /\ ~Streaming /\ spc = "returned") => ReturnedLastStreamed

\* The same statement without sem.
C30_TotalIsLastOfStreamingButSem ==
    (stat \in Stats \ {"sem"} /\ ~Streaming /\ spc = "returned") => ReturnedLastStreamed

\* sem agrees with isem whenever ddof is passed.
C30_SemWithDdofGiven ==
    (stat = "sem" /\ spc = "returned") =>
        sreturned = <<LastStreamed("isem", ddof)>>

====
